---- MODULE Spec2Model ----
(***************************************************************************)
(* A model of the MyLang interpreter (src/mylang_interpreter.py): the      *)
(* tree-walking evaluator with its environment, imported-module set,       *)
(* module loading and try/catch, and the lexer's cursor.                   *)
(*                                                                         *)
(* Texts are sequences of one-character strings.  The fixed literals of    *)
(* the source's error messages (which are written in Chinese) are kept as  *)
(* single indivisible atoms with an ASCII spelling; the comment next to    *)
(* each gives the literal of the source.                                   *)
(***************************************************************************)
EXTENDS Integers, Sequences, FiniteSets, TLC

VARIABLES
    ast,        \* the program main hands to interpret: a list of statements
    files,      \* the file system seen by find_module/open: module name -> file
    stack,      \* the interpreter's control stack (innermost frame last)
    interps,    \* the live Interpreter instances (innermost last)
    heap,       \* the dict objects: heap[r] is the name->value mapping with id r
    out,        \* the lines printed so far
    io,         \* module name -> how often find_module looked it up and how often
                \* its file was opened and read
    status,     \* "running", "done" (interpret returned) or "error" (error escaped)
    error,      \* the message of the error that escaped interpret
    ev,         \* what the last step did (an observation record)
    operands,   \* an operator and two operand values (the operator runs)
    result,     \* what visiting the operator node yields
    text,       \* Lexer.text
    pos,        \* Lexer.pos
    line,       \* Lexer.line
    column,     \* Lexer.column
    token,      \* the Token the last get_next_token returned
    lexerror,   \* str(e) of the exception get_next_token raised
    start,      \* where the lexeme of `token` starts: its pos, line and column
    eofs,       \* how many EOF tokens get_next_token has returned
    readable,   \* whether main can open and read the file it is called with
    exitcode    \* what main returned (-1: it has not returned)

interpvars == <<ast, files, stack, interps, heap, out, io, status, error, ev>>
exprvars == <<operands, result>>
lexvars == <<text, pos, line, column, token, lexerror, start, eofs>>
mainvars == <<readable, exitcode>>
vars == <<interpvars, exprvars, lexvars, mainvars>>

----------------------------------------------------------------------------
(* Runtime values: Python int, float, str and bool.  A float is kept as    *)
(* the rational n/d in lowest terms with d > 0.                            *)

IntVal(i) == [t |-> "int", n |-> i, d |-> 1, s |-> <<>>]
FloatVal(a, b) == [t |-> "float", n |-> a, d |-> b, s |-> <<>>]
StrVal(x) == [t |-> "str", n |-> 0, d |-> 1, s |-> x]
BoolVal(b) == [t |-> "bool", n |-> IF b THEN 1 ELSE 0, d |-> 1, s |-> <<>>]

\* type(v).__name__
TypeName(v) == v.t

\* isinstance(v, str)
IsStr(v) == v.t = "str"

\* isinstance(v, int): bool is a subclass of int
IsInt(v) == v.t \in {"int", "bool"}

\* a check that lets every value pass for a boolean
IsBoolAny(v) == TRUE

\* isinstance(v, bool)
IsBool(v) == v.t = "bool"

\* isinstance(v, (int, float))
IsNum(v) == v.t \in {"int", "bool", "float"}

Abs(i) == IF i < 0 THEN -i ELSE i

RECURSIVE Gcd(_, _)
Gcd(a, b) == IF b = 0 THEN a ELSE Gcd(b, a % b)

\* the float a/b (b # 0) in lowest terms
MkFloat(a, b) ==
    LET g == Gcd(Abs(a), Abs(b))
        sgn == IF b < 0 THEN -1 ELSE 1
    IN FloatVal(sgn * (a \div g), sgn * (b \div g))

\* the result kind of int-or-float arithmetic: int when both are int
NumResult(l, r, a, b) ==
    IF IsInt(l) /\ IsInt(r) THEN IntVal(a \div b) ELSE MkFloat(a, b)

----------------------------------------------------------------------------
(* str(v)                                                                  *)

Digit(i) == <<"0", "1", "2", "3", "4", "5", "6", "7", "8", "9">>[i + 1]

RECURSIVE NatStr(_)
NatStr(i) == IF i < 10 THEN <<Digit(i)>> ELSE NatStr(i \div 10) \o <<Digit(i % 10)>>

IntStr(i) == IF i < 0 THEN <<"-">> \o NatStr(-i) ELSE NatStr(i)

\* the digits after the decimal point of r/d (0 <= r < d), at most k of them
RECURSIVE FracDigits(_, _, _)
FracDigits(r, d, k) ==
    IF r = 0 \/ k = 0 THEN <<>>
    ELSE <<Digit((r * 10) \div d)>> \o FracDigits((r * 10) % d, d, k - 1)

\* repr of a float: the digits of the decimal expansion, which terminates for
\* the floats of this model within the 16 digits Python prints
FloatStr(v) ==
    LET a == Abs(v.n)
        frac == FracDigits(a % v.d, v.d, 16)
    IN (IF v.n < 0 THEN <<"-">> ELSE <<>>) \o NatStr(a \div v.d) \o <<".">>
       \o (IF frac = <<>> THEN <<"0">> ELSE frac)

PyStr(v) ==
    CASE v.t = "str" -> v.s
      [] v.t = "int" -> IntStr(v.n)
      [] v.t = "float" -> FloatStr(v)
      [] v.t = "bool" -> IF v.n = 1 THEN <<"True">> ELSE <<"False">>

\* the truth value Python's `while` takes of v
Truthy(v) == IF v.t = "str" THEN v.s # <<>> ELSE v.n # 0

\* s repeated k times (k <= 0 gives the empty text)
RECURSIVE Repeat(_, _)
Repeat(s, k) == IF k <= 0 THEN <<>> ELSE s \o Repeat(s, k - 1)

\* ", ".join(names)
RECURSIVE Join(_)
Join(names) ==
    IF names = <<>> THEN <<>>
    ELSE IF Len(names) = 1 THEN <<names[1]>>
    ELSE <<names[1], ",", " ">> \o Join(Tail(names))

----------------------------------------------------------------------------
(* The environment: a Python dict, which keeps its keys in insertion order. *)
(* It is a sequence of [name, val] entries with distinct names.            *)

Keys(env) == [i \in 1..Len(env) |-> env[i].name]

Has(env, name) == \E i \in 1..Len(env) : env[i].name = name

Lookup(env, name) == env[CHOOSE i \in 1..Len(env) : env[i].name = name].val

\* env[name] = v: replaces in place, or appends a new key
Bind(env, name, v) ==
    IF Has(env, name)
    THEN [i \in 1..Len(env) |->
            IF env[i].name = name THEN [name |-> name, val |-> v] ELSE env[i]]
    ELSE Append(env, [name |-> name, val |-> v])

----------------------------------------------------------------------------
(* AST nodes (src/mylang_interpreter.py:252-309)                           *)

Number(v) == [k |-> "Number", value |-> v]
String(x) == [k |-> "String", value |-> StrVal(x)]
Variable(name) == [k |-> "Variable", name |-> name]
BinOp(l, op, r) == [k |-> "BinOp", left |-> l, op |-> op, right |-> r]
Comparison(l, op, r) == [k |-> "Comparison", left |-> l, op |-> op, right |-> r]
Assign(var, e) == [k |-> "Assign", var |-> var, expr |-> e]
PrintStmt(e) == [k |-> "Print", expr |-> e]
If(c, tb, fb) == [k |-> "If", condition |-> c, true_block |-> tb, false_block |-> fb]
While(c, b) == [k |-> "While", condition |-> c, block |-> b]
Import(m) == [k |-> "Import", module_name |-> m]
TryCatch(tb, cb, v) ==
    [k |-> "TryCatch", try_block |-> tb, catch_block |-> cb, error_var |-> v]

----------------------------------------------------------------------------
(* Results of a visit: a value, or a raised RuntimeError with its message. *)

Ok(v) == [ok |-> TRUE, val |-> v, msg |-> <<>>]
Raise(m) == [ok |-> FALSE, val |-> IntVal(0), msg |-> m]

\* "未定义的变量: '{name}'。可用的变量: [{available_vars}]"
MsgUndefined(name, env) ==
    <<"Undefined variable: '", name, "'. Available variables: [">>
    \o Join(Keys(env)) \o <<"]">>

\* "除以零错误"
MsgDivZero == <<"Division by zero error">>

\* "不支持的类型相加: ", "不支持的类型相减: ", "不支持的类型相乘: ", "不支持的类型相除: "
MsgBinOpTypes(op, l, r) ==
    <<"Unsupported operand types: ", TypeName(l), " ", op, " ", TypeName(r)>>

\* "未知的运算符: {op}"
MsgUnknownOp(op) == <<"Unknown operator: ", op>>

\* "比较运算类型不匹配: {l} 和 {r}"
MsgCmpMismatch(l, r) ==
    <<"Comparison type mismatch: ", TypeName(l), " and ", TypeName(r)>>

\* "不支持的类型比较: {l} {op} {r}"
MsgCmpTypes(op, l, r) ==
    <<"Unsupported comparison types: ", TypeName(l), " ", op, " ", TypeName(r)>>

\* "未知的比较运算符: {op}"
MsgUnknownCmp(op) == <<"Unknown comparison operator: ", op>>

\* a lookup that yields 0 for a missing name instead of failing
VisitVariableDefault(name, env) ==
    IF Has(env, name) THEN Ok(Lookup(env, name)) ELSE Ok(IntVal(0))

\* visit_Variable
VisitVariable(name, env) ==
    IF Has(env, name) THEN Ok(Lookup(env, name))
    ELSE Raise(MsgUndefined(name, env))

\* a division that keeps the int kind for two ints (floor division)
DivideKeepsInt(l, r) ==
    IF IsNum(l) /\ IsNum(r)
    THEN IF r.n = 0 THEN Raise(MsgDivZero)
         ELSE Ok(NumResult(l, r, l.n * r.d, l.d * r.n))
    ELSE Raise(MsgBinOpTypes("/", l, r))

\* the `/` branch of visit_BinOp, on evaluated operands
Divide(l, r) ==
    IF IsNum(l) /\ IsNum(r)
    THEN IF r.n = 0 THEN Raise(MsgDivZero)
         ELSE Ok(MkFloat(l.n * r.d, l.d * r.n))
    ELSE Raise(MsgBinOpTypes("/", l, r))

\* a `+` that concatenates two texts only and adds numbers
PlusTextsOnly(l, r) ==
    IF IsStr(l) /\ IsStr(r) THEN Ok(StrVal(l.s \o r.s))
    ELSE IF IsNum(l) /\ IsNum(r)
    THEN Ok(NumResult(l, r, l.n * r.d + r.n * l.d, l.d * r.d))
    ELSE Raise(MsgBinOpTypes("+", l, r))

\* the `+` branch of visit_BinOp
Plus(l, r) ==
    IF IsStr(l) \/ IsStr(r) THEN Ok(StrVal(PyStr(l) \o PyStr(r)))
    ELSE IF IsNum(l) /\ IsNum(r)
    THEN Ok(NumResult(l, r, l.n * r.d + r.n * l.d, l.d * r.d))
    ELSE Raise(MsgBinOpTypes("+", l, r))

\* the `-` branch of visit_BinOp
Minus(l, r) ==
    IF IsNum(l) /\ IsNum(r)
    THEN Ok(NumResult(l, r, l.n * r.d - r.n * l.d, l.d * r.d))
    ELSE Raise(MsgBinOpTypes("-", l, r))

\* a `*` that repeats a text only when the text is the left operand
MultiplyTextLeft(l, r) ==
    IF IsStr(l) /\ IsInt(r) THEN Ok(StrVal(Repeat(l.s, r.n)))
    ELSE IF IsNum(l) /\ IsNum(r) THEN Ok(NumResult(l, r, l.n * r.n, l.d * r.d))
    ELSE Raise(MsgBinOpTypes("*", l, r))

\* the `*` branch of visit_BinOp
Multiply(l, r) ==
    IF IsStr(l) /\ IsInt(r) THEN Ok(StrVal(Repeat(l.s, r.n)))
    ELSE IF IsInt(l) /\ IsStr(r) THEN Ok(StrVal(Repeat(r.s, l.n)))
    ELSE IF IsNum(l) /\ IsNum(r) THEN Ok(NumResult(l, r, l.n * r.n, l.d * r.d))
    ELSE Raise(MsgBinOpTypes("*", l, r))

\* visit_BinOp, on evaluated operands
ApplyBinOp(op, l, r) ==
    CASE op = "+" -> Plus(l, r)
      [] op = "-" -> Minus(l, r)
      [] op = "*" -> Multiply(l, r)
      [] op = "/" -> Divide(l, r)
      [] OTHER -> Raise(MsgUnknownOp(op))

\* the numeric ordering l < r of two numbers
NumLess(l, r) == l.n * r.d < r.n * l.d

\* visit_Comparison, on evaluated operands
ApplyComparison(op, l, r) ==
    IF TypeName(l) # TypeName(r) THEN Raise(MsgCmpMismatch(l, r))
    ELSE IF op = "==" THEN Ok(BoolVal(l = r))
    ELSE IF op = "!=" THEN Ok(BoolVal(l # r))
    ELSE IF op \in {"<", "<=", ">", ">="}
    THEN IF IsNum(l) /\ IsNum(r)
         THEN Ok(BoolVal(CASE op = "<" -> NumLess(l, r)
                           [] op = "<=" -> ~NumLess(r, l)
                           [] op = ">" -> NumLess(r, l)
                           [] op = ">=" -> ~NumLess(l, r)))
         ELSE Raise(MsgCmpTypes(op, l, r))
    ELSE Raise(MsgUnknownCmp(op))

\* visit, for the expression nodes: the left operand is visited first, and
\* the first RuntimeError raised is the one that propagates
RECURSIVE Eval(_, _)
Eval(e, env) ==
    CASE e.k \in {"Number", "String"} -> Ok(e.value)
      [] e.k = "Variable" -> VisitVariable(e.name, env)
      [] e.k \in {"BinOp", "Comparison"} ->
            LET l == Eval(e.left, env)
            IN IF ~l.ok THEN l
               ELSE LET r == Eval(e.right, env)
                    IN IF ~r.ok THEN r
                       ELSE IF e.k = "BinOp" THEN ApplyBinOp(e.op, l.val, r.val)
                       ELSE ApplyComparison(e.op, l.val, r.val)

----------------------------------------------------------------------------
(* Module files.  A file is where find_module finds it ("none": nowhere),  *)
(* whether open()/read() succeeds, and what Lexer+Parser make of its text: *)
(* an AST, a LexerError, a ParserError, or a host exception that is no     *)
(* MyLangError (int() of a digit such as a superscript two, which          *)
(* str.isdigit accepts, raises ValueError in Lexer.number).                *)

ModuleNames == {"a", "b"}

NoFile == [loc |-> "none", readable |-> FALSE, src |-> "ok", ast |-> <<>>]
Unreadable(loc) == [loc |-> loc, readable |-> FALSE, src |-> "ok", ast |-> <<>>]
BadFile(loc, src) == [loc |-> loc, readable |-> TRUE, src |-> src, ast |-> <<>>]
Source(loc, body) == [loc |-> loc, readable |-> TRUE, src |-> "ok", ast |-> body]

\* os.path.join(os.path.expanduser("~"), ".mylang", "packages") + separator
PackageDir == <<"~/.mylang/packages/">>

\* find_module: the path found for module_name, or None
FoundAt(fs, name) == fs[name].loc # "none"
find_module(fs, name) ==
    CASE fs[name].loc = "cwd" -> <<name, ".mylang">>
      [] fs[name].loc = "pkg" -> PackageDir \o <<name, ".mylang">>
      [] fs[name].loc = "pkgver" -> PackageDir \o <<name, "-", "1", ".mylang">>
      [] OTHER -> <<>>

\* "找不到模块: {module_name}"
MsgNotFound(name) == <<"Module not found: ", name>>

\* "无法读取模块文件 '{module_path}': {str(e)}"
MsgUnreadable(path, e) == <<"Cannot read module file '">> \o path \o <<"': ">> \o e

\* "导入模块 '{module_name}' 时出错: {str(e)}"
MsgImportError(name, e) == <<"Error importing module '", name, "': ">> \o e

\* visit: "运行时错误: {str(e)}" for an exception that is no RuntimeError
MsgWrapped(e) == <<"Runtime error: ">> \o e

\* "循环次数过多，可能陷入无限循环"
MsgLoopLimit == <<"Too many loop iterations, possibly an infinite loop">>

\* "条件表达式必须为布尔值，得到: {type}"
MsgCondNotBool(v) == <<"Condition must be a boolean, got: ", TypeName(v)>>

\* str(e) of the OSError open() raises
OSErrorText(path) == <<"[Errno 13] Permission denied: '">> \o path \o <<"'">>

\* str(e) of the LexerError or ParserError: "{filename}:{line}:{column}: {msg}"
FrontEndText(path, src) == path \o <<":", "1", ":", "1", ": ", src>>

\* str(e) of the ValueError int() raises in Lexer.number
ValueErrorText == <<"invalid literal for int() with base 10">>

\* str(e) of the host's RecursionError
RecursionErrorText == <<"maximum recursion depth exceeded">>

----------------------------------------------------------------------------
(* The control stack.  A block frame runs a statement list; the frames of   *)
(* visit_While, visit_TryCatch (while its try-block runs) and visit_Import  *)
(* lie under the block they run.                                            *)

Block(stmts, role) == [k |-> "block", stmts |-> stmts, pc |-> 1, role |-> role]
WhileFrame(node, iterations) ==
    [k |-> "While", node |-> node, iterations |-> iterations]
TryFrame(node) == [k |-> "TryCatch", node |-> node]
ImportFrame(name, own) == [k |-> "Import", name |-> name, own |-> own]

\* Interpreter.__init__: a fresh dict and a fresh set
NewInterpreter(ref) == [variables |-> ref, imported_modules |-> {}]

Front(q) == SubSeq(q, 1, Len(q) - 1)
Last(q) == q[Len(q)]

Top == Last(stack)
CurInterp == Last(interps)
Env == heap[CurInterp.variables]

\* max_iterations = 10000
max_iterations == 10000

\* the iterations of the loops that end by themselves: more than half of
\* max_iterations, so that two of them exceed it together
LongLoop == 6000

\* `if iterations > max_iterations`
LimitExceeded(iterations) == iterations > max_iterations

\* a module interpreter left with the dict its constructor made
ModuleVariablesOwn(parent, fresh) == fresh

\* module_interpreter.variables = self.variables
ModuleVariables(parent, fresh) == parent

\* a handler that ignores the clause's variable and binds the default name
BindErrorDefault(env, node, msg) == Bind(env, "_error", StrVal(msg))

\* a handler that starts its catch-block with nothing but the catch variable
BindErrorRollsBack(env, node, msg) == Bind(<<>>, node.error_var, StrVal(msg))

\* the handler of visit_TryCatch: self.variables[node.error_var] = str(e)
BindError(env, node, msg) == Bind(env, node.error_var, StrVal(msg))

\* An exception with message msg propagates from the innermost frame: out of
\* visit_Import it is wrapped (except MyLangError), at a visit_TryCatch whose
\* try-block is running it is caught, and past the last frame it escapes.
RECURSIVE Unwind(_, _, _, _)

\* a visit_TryCatch whose handler is still in force while its catch-block runs
UnwindKeepsTry(stk, ints, hp, msg) ==
    IF stk = <<>>
    THEN [stack |-> <<>>, interps |-> ints, heap |-> hp, caught |-> FALSE,
          msg |-> msg, handler |-> 0, imports |-> <<>>]
    ELSE LET top == Last(stk)
         IN CASE top.k = "TryCatch" ->
                   [stack |-> Append(stk, Block(top.node.catch_block, "catch")),
                    interps |-> ints,
                    heap |-> [hp EXCEPT ![Last(ints).variables] =
                                            BindError(@, top.node, msg)],
                    caught |-> TRUE, msg |-> msg, handler |-> Len(stk),
                    imports |-> <<>>]
              [] top.k = "Import" ->
                   LET wrapped == MsgImportError(top.name, msg)
                       u == Unwind(Front(stk), Front(ints),
                                   SubSeq(hp, 1, top.own - 1), wrapped)
                   IN [u EXCEPT !.imports =
                          <<[name |-> top.name, msg |-> wrapped, cause |-> msg]>> \o @]
              [] OTHER -> Unwind(Front(stk), ints, hp, msg)

Unwind(stk, ints, hp, msg) ==
    IF stk = <<>>
    THEN [stack |-> <<>>, interps |-> ints, heap |-> hp, caught |-> FALSE,
          msg |-> msg, handler |-> 0, imports |-> <<>>]
    ELSE LET top == Last(stk)
         IN CASE top.k = "TryCatch" ->
                   [stack |-> Append(Front(stk), Block(top.node.catch_block, "catch")),
                    interps |-> ints,
                    heap |-> [hp EXCEPT ![Last(ints).variables] =
                                            BindError(@, top.node, msg)],
                    caught |-> TRUE, msg |-> msg, handler |-> Len(stk),
                    imports |-> <<>>]
              [] top.k = "Import" ->
                   LET wrapped == MsgImportError(top.name, msg)
                       u == Unwind(Front(stk), Front(ints),
                                   SubSeq(hp, 1, top.own - 1), wrapped)
                   IN [u EXCEPT !.imports =
                          <<[name |-> top.name, msg |-> wrapped, cause |-> msg]>> \o @]
              [] OTHER -> Unwind(Front(stk), ints, hp, msg)

\* The observation of a step: the statement visited; for a failure the
\* message raised, the message delivered to the handler or to the caller of
\* interpret, the TryCatch node that caught it, and the running visit_Import
\* calls the exception left, each with the message it failed with and the
\* message of the exception it wrapped; for a condition check of a While
\* whether the body is entered; for a While the body runs completed.
NoNode == [k |-> "none"]

Event(op, node) ==
    [op |-> op, node |-> node, failed |-> FALSE, raised |-> <<>>,
     delivered |-> <<>>, caught |-> FALSE, hnode |-> NoNode, imports |-> <<>>,
     taken |-> FALSE, iterations |-> 0]

\* the step ends in a RuntimeError raised with message msg from the stack stk
Throw(stk, ints, hp, msg, op, node) ==
    LET u == Unwind(stk, ints, hp, msg)
    IN /\ stack' = u.stack
       /\ interps' = u.interps
       /\ heap' = u.heap
       /\ status' = IF u.caught THEN "running" ELSE "error"
       /\ error' = IF u.caught THEN <<>> ELSE u.msg
       /\ ev' = [Event(op, node) EXCEPT
                    !.failed = TRUE, !.raised = msg, !.delivered = u.msg,
                    !.caught = u.caught,
                    !.hnode = IF u.caught THEN stk[u.handler].node ELSE NoNode,
                    !.imports = u.imports,
                    !.iterations = IF op = "WhileLimit"
                                   THEN Last(stk).iterations + 1 ELSE 0]

AtStmt(kind) ==
    /\ status = "running"
    /\ Top.k = "block"
    /\ Top.pc <= Len(Top.stmts)
    /\ Top.stmts[Top.pc].k = kind

AtEnd(roles) ==
    /\ status = "running"
    /\ Top.k = "block"
    /\ Top.pc > Len(Top.stmts)
    /\ Top.role \in roles

CurStmt == Top.stmts[Top.pc]

\* a loop over the statements that skips the one after the current statement
SteppedTwice == [stack EXCEPT ![Len(stack)].pc = @ + 2]

\* the stack once the current statement has returned
Stepped == [stack EXCEPT ![Len(stack)].pc = @ + 1]

----------------------------------------------------------------------------
(* The statements: the visit methods of Interpreter.                        *)

\* visit_Assign
VisitAssign ==
    /\ AtStmt("Assign")
    /\ LET r == Eval(CurStmt.expr, Env)
       IN IF r.ok
          THEN /\ heap' = [heap EXCEPT ![CurInterp.variables] =
                                           Bind(@, CurStmt.var, r.val)]
               /\ stack' = Stepped
               /\ ev' = Event("Assign", CurStmt)
               /\ UNCHANGED <<interps, status, error>>
          ELSE Throw(stack, interps, heap, r.msg, "Assign", CurStmt)
    /\ UNCHANGED <<ast, files, out, io>>
    /\ UNCHANGED <<exprvars, lexvars, mainvars>>

\* visit_Print
VisitPrint ==
    /\ AtStmt("Print")
    /\ LET r == Eval(CurStmt.expr, Env)
       IN IF r.ok
          THEN /\ out' = Append(out, PyStr(r.val))
               /\ stack' = Stepped
               /\ ev' = Event("Print", CurStmt)
               /\ UNCHANGED <<interps, heap, status, error>>
          ELSE /\ Throw(stack, interps, heap, r.msg, "Print", CurStmt)
               /\ UNCHANGED out
    /\ UNCHANGED <<ast, files, io>>
    /\ UNCHANGED <<exprvars, lexvars, mainvars>>

\* visit_If, up to the first statement of the chosen block
VisitIf ==
    /\ AtStmt("If")
    /\ LET r == Eval(CurStmt.condition, Env)
       IN IF ~r.ok THEN Throw(stack, interps, heap, r.msg, "If", CurStmt)
          ELSE IF ~IsBool(r.val)
          THEN Throw(stack, interps, heap, MsgCondNotBool(r.val), "If", CurStmt)
          ELSE /\ stack' = IF r.val.n = 1
                           THEN Append(Stepped, Block(CurStmt.true_block, "then"))
                           ELSE IF CurStmt.false_block # <<>>
                           THEN Append(Stepped, Block(CurStmt.false_block, "else"))
                           ELSE Stepped
               /\ ev' = Event("If", CurStmt)
               /\ UNCHANGED <<interps, heap, status, error>>
    /\ UNCHANGED <<ast, files, out, io>>
    /\ UNCHANGED <<exprvars, lexvars, mainvars>>

\* the end of a then- or else-block: visit_If returns
IfEnd ==
    /\ AtEnd({"then", "else"})
    /\ stack' = Front(stack)
    /\ ev' = Event("IfEnd", [k |-> Top.role])
    /\ UNCHANGED <<ast, files, interps, heap, out, io, status, error>>
    /\ UNCHANGED <<exprvars, lexvars, mainvars>>

\* `while self.visit(node.condition)`: the condition check of a visit_While
\* whose frame is pushed on stk (the body block is not), with its counter at
\* iterations
WhileCheck(stk, node, iterations, op) ==
    LET r == Eval(node.condition, Env)
    IN IF ~r.ok THEN Throw(stk, interps, heap, r.msg, op, node)
       ELSE /\ stack' = IF Truthy(r.val)
                        THEN Front(stk) \o <<WhileFrame(node, iterations),
                                             Block(node.block, "body")>>
                        ELSE Front(stk)
            /\ ev' = [Event(op, node) EXCEPT !.taken = Truthy(r.val),
                                             !.iterations = iterations]
            /\ UNCHANGED <<interps, heap, status, error>>

\* a visit_While whose counter goes on from the count of the loop around it
VisitWhileInherits ==
    /\ AtStmt("While")
    /\ LET n == IF Len(stack) > 1 /\ stack[Len(stack) - 1].k = "While"
                THEN stack[Len(stack) - 1].iterations ELSE 0
       IN WhileCheck(Append(Stepped, WhileFrame(CurStmt, n)), CurStmt, n, "While")
    /\ UNCHANGED <<ast, files, out, io>>
    /\ UNCHANGED <<exprvars, lexvars, mainvars>>

\* visit_While: iterations = 0 and the first condition check
VisitWhile ==
    /\ AtStmt("While")
    /\ WhileCheck(Append(Stepped, WhileFrame(CurStmt, 0)), CurStmt, 0, "While")
    /\ UNCHANGED <<ast, files, out, io>>
    /\ UNCHANGED <<exprvars, lexvars, mainvars>>

\* the end of a body run without `iterations += 1` and the limit check
WhileIterateUncounted ==
    /\ AtEnd({"body"})
    /\ LET w == stack[Len(stack) - 1]
       IN WhileCheck(Front(stack), w.node, w.iterations, "WhileIterate")
    /\ UNCHANGED <<ast, files, out, io>>
    /\ UNCHANGED <<exprvars, lexvars, mainvars>>

\* the end of a body run: iterations += 1, the limit check, and the next
\* condition check
WhileIterate ==
    /\ AtEnd({"body"})
    /\ LET w == stack[Len(stack) - 1]
           n == w.iterations + 1
       IN IF LimitExceeded(n)
          THEN Throw(Front(stack), interps, heap, MsgLoopLimit, "WhileLimit", w.node)
          ELSE WhileCheck(Front(stack), w.node, n, "WhileIterate")
    /\ UNCHANGED <<ast, files, out, io>>
    /\ UNCHANGED <<exprvars, lexvars, mainvars>>

\* visit_TryCatch: enters the try-block
VisitTryCatch ==
    /\ AtStmt("TryCatch")
    /\ stack' = Stepped \o <<TryFrame(CurStmt), Block(CurStmt.try_block, "try")>>
    /\ ev' = Event("TryCatch", CurStmt)
    /\ UNCHANGED <<ast, files, interps, heap, out, io, status, error>>
    /\ UNCHANGED <<exprvars, lexvars, mainvars>>

\* a visit_TryCatch that runs its catch-block after a try-block that completed
TryEndRunsCatch ==
    /\ AtEnd({"try"})
    /\ stack' = Append(SubSeq(stack, 1, Len(stack) - 2),
                       Block(stack[Len(stack) - 1].node.catch_block, "catch"))
    /\ ev' = Event("TryEnd", stack[Len(stack) - 1].node)
    /\ UNCHANGED <<ast, files, interps, heap, out, io, status, error>>
    /\ UNCHANGED <<exprvars, lexvars, mainvars>>

\* the try-block completed: visit_TryCatch returns
TryEnd ==
    /\ AtEnd({"try"})
    /\ stack' = SubSeq(stack, 1, Len(stack) - 2)
    /\ ev' = Event("TryEnd", stack[Len(stack) - 1].node)
    /\ UNCHANGED <<ast, files, interps, heap, out, io, status, error>>
    /\ UNCHANGED <<exprvars, lexvars, mainvars>>

\* the catch-block completed: visit_TryCatch returns
CatchEnd ==
    /\ AtEnd({"catch"})
    /\ stack' = Front(stack)
    /\ ev' = Event("CatchEnd", [k |-> Top.role])
    /\ UNCHANGED <<ast, files, interps, heap, out, io, status, error>>
    /\ UNCHANGED <<exprvars, lexvars, mainvars>>

\* the deepest nesting of module interpreters the host's call stack allows
\* before it raises RecursionError
MaxImportDepth == 3

ImportName == CurStmt.module_name

\* a visit_Import that does not record the name
AddedNothing == interps

\* self.imported_modules.add(module_name)
Added == [interps EXCEPT ![Len(interps)].imported_modules = @ \cup {ImportName}]

\* a visit_Import without the test of the imported set
NeverImported(interp, name) == FALSE

\* `if module_name in self.imported_modules: return`
AlreadyImported(interp, name) == name \in interp.imported_modules

Resolved(n) == [io EXCEPT ![n].resolved = @ + 1]
ResolvedAndRead(n) == [io EXCEPT ![n].resolved = @ + 1, ![n].read = @ + 1]

\* visit_Import of a name already in the imported set
ImportAgain ==
    /\ AtStmt("Import")
    /\ AlreadyImported(CurInterp, ImportName)
    /\ stack' = Stepped
    /\ ev' = Event("ImportAgain", CurStmt)
    /\ UNCHANGED <<ast, files, interps, heap, out, io, status, error>>
    /\ UNCHANGED <<exprvars, lexvars, mainvars>>

ImportNew ==
    /\ AtStmt("Import")
    /\ ~AlreadyImported(CurInterp, ImportName)
    /\ Len(interps) <= MaxImportDepth

\* visit_Import: find_module returns None
ImportNotFound ==
    /\ ImportNew
    /\ ~FoundAt(files, ImportName)
    /\ io' = Resolved(ImportName)
    /\ Throw(stack, Added, heap, MsgNotFound(ImportName), "ImportNotFound", CurStmt)
    /\ UNCHANGED <<ast, files, out>>
    /\ UNCHANGED <<exprvars, lexvars, mainvars>>

\* visit_Import: open() or read() raises
ImportUnreadable ==
    /\ ImportNew
    /\ FoundAt(files, ImportName)
    /\ ~files[ImportName].readable
    /\ io' = Resolved(ImportName)
    /\ LET path == find_module(files, ImportName)
       IN Throw(stack, Added, heap, MsgUnreadable(path, OSErrorText(path)),
                "ImportUnreadable", CurStmt)
    /\ UNCHANGED <<ast, files, out>>
    /\ UNCHANGED <<exprvars, lexvars, mainvars>>

\* visit_Import: Lexer or Parser raises a LexerError or ParserError, which
\* `except MyLangError` wraps
ImportFrontEndError ==
    /\ ImportNew
    /\ FoundAt(files, ImportName)
    /\ files[ImportName].readable
    /\ files[ImportName].src \in {"LexerError", "ParserError"}
    /\ io' = ResolvedAndRead(ImportName)
    /\ LET path == find_module(files, ImportName)
       IN Throw(stack, Added, heap,
                MsgImportError(ImportName, FrontEndText(path, files[ImportName].src)),
                "ImportFrontEndError", CurStmt)
    /\ UNCHANGED <<ast, files, out>>
    /\ UNCHANGED <<exprvars, lexvars, mainvars>>

\* visit_Import: the Lexer raises an exception that is no MyLangError; it
\* passes `except MyLangError` and visit wraps it
ImportHostError ==
    /\ ImportNew
    /\ FoundAt(files, ImportName)
    /\ files[ImportName].readable
    /\ files[ImportName].src = "ValueError"
    /\ io' = ResolvedAndRead(ImportName)
    /\ Throw(stack, Added, heap, MsgWrapped(ValueErrorText), "ImportHostError", CurStmt)
    /\ UNCHANGED <<ast, files, out>>
    /\ UNCHANGED <<exprvars, lexvars, mainvars>>

\* visit_Import: the module was read and parsed; a new Interpreter runs its
\* statements (module_interpreter.interpret(ast))
ImportRun ==
    /\ ImportNew
    /\ FoundAt(files, ImportName)
    /\ files[ImportName].readable
    /\ files[ImportName].src = "ok"
    /\ io' = ResolvedAndRead(ImportName)
    /\ LET fresh == Len(heap) + 1
           mi == [NewInterpreter(fresh) EXCEPT
                     !.variables = ModuleVariables(CurInterp.variables, fresh)]
       IN /\ heap' = Append(heap, <<>>)
          /\ interps' = Append(Added, mi)
          /\ stack' = Stepped \o <<ImportFrame(ImportName, fresh),
                                   Block(files[ImportName].ast, "module")>>
    /\ ev' = Event("ImportRun", CurStmt)
    /\ UNCHANGED <<ast, files, out, status, error>>
    /\ UNCHANGED <<exprvars, lexvars, mainvars>>

\* visit_Import with the host's call stack exhausted: RecursionError strikes
\* inside open() (and `except Exception` reports the file unreadable) or in
\* another call of visit_Import (and visit wraps it)
ImportRecursion ==
    /\ AtStmt("Import")
    /\ ~AlreadyImported(CurInterp, ImportName)
    /\ Len(interps) > MaxImportDepth
    /\ \E where \in {"open", "other"} :
          IF where = "open" /\ FoundAt(files, ImportName)
          THEN /\ io' = Resolved(ImportName)
               /\ Throw(stack, Added, heap,
                        MsgUnreadable(find_module(files, ImportName), RecursionErrorText),
                        "ImportRecursion", CurStmt)
          ELSE /\ io' = io
               /\ Throw(stack, Added, heap, MsgWrapped(RecursionErrorText),
                        "ImportRecursion", CurStmt)
    /\ UNCHANGED <<ast, files, out>>
    /\ UNCHANGED <<exprvars, lexvars, mainvars>>

\* the module's statements are done: visit_Import returns and the module's
\* Interpreter is dropped
ModuleEnd ==
    /\ AtEnd({"module"})
    /\ stack' = SubSeq(stack, 1, Len(stack) - 2)
    /\ interps' = Front(interps)
    /\ heap' = SubSeq(heap, 1, stack[Len(stack) - 1].own - 1)
    /\ ev' = Event("ModuleEnd", Import(stack[Len(stack) - 1].name))
    /\ UNCHANGED <<ast, files, out, io, status, error>>
    /\ UNCHANGED <<exprvars, lexvars, mainvars>>

\* interpret returned to main
ProgramEnd ==
    /\ AtEnd({"program"})
    /\ stack' = <<>>
    /\ status' = "done"
    /\ ev' = Event("ProgramEnd", [k |-> "program"])
    /\ UNCHANGED <<ast, files, interps, heap, out, io, error>>
    /\ UNCHANGED <<exprvars, lexvars, mainvars>>

----------------------------------------------------------------------------
(* The programs and file systems the interpreter is run on.                 *)

N(i) == Number(IntVal(i))
S(x) == String(x)
V(name) == Variable(name)

XPlus1 == BinOp(V("x"), "+", N(1))

\* the statements blocks are made of
SimpleStmts ==
    { Assign("x", N(1)),
      Assign("x", XPlus1),
      Assign("y", V("x")),
      Assign("e", S(<<"s">>)),
      Assign("x", BinOp(N(1), "/", N(0))),
      PrintStmt(V("x")),
      Import("a"),
      Import("b") }

Blocks == {<<>>} \cup {<<s1>> : s1 \in SimpleStmts}
             \cup {<<s1, s2>> : s1 \in SimpleStmts, s2 \in SimpleStmts}

CatchBlocks == { <<PrintStmt(V("e"))>>, <<Assign("y", V("x"))>> }

\* [pre;] try { block } catch (e) { ... } print(y);
TryPrograms ==
    { pre \o <<TryCatch(tb, cb, "e"), PrintStmt(V("y"))>> :
        pre \in {<<>>, <<Assign("x", N(1))>>}, tb \in Blocks, cb \in CatchBlocks }
    \cup { <<Assign("x", N(1)),
             TryCatch(<<Assign("x", XPlus1), PrintStmt(V("x")),
                        Assign("x", BinOp(N(1), "/", N(0)))>>, cb, "e"),
             PrintStmt(V("y"))>> : cb \in CatchBlocks }

WhileConds ==
    { Comparison(N(1), "==", N(1)),
      Comparison(V("x"), "<", N(2)),
      N(1), N(0), S(<<>>), V("x"), V("y") }

WhileBodies == { <<>>, <<Assign("x", XPlus1)>> }

Whiles == { While(c, b) : c \in WhileConds, b \in WhileBodies }

\* x = 0; while (...) { ... } print(x);   and the same loop inside a try
WhilePrograms ==
    { <<Assign("x", N(0)), w, PrintStmt(V("x"))>> : w \in Whiles }
    \cup { <<Assign("x", N(0)),
             TryCatch(<<While(c, <<Assign("x", XPlus1)>>)>>, <<PrintStmt(V("e"))>>, "e"),
             PrintStmt(V("x"))>> : c \in {Comparison(N(1), "==", N(1)), N(1)} }

\* sequences of imports and uses of what the modules bind
ImportStmts == { Import("a"), Import("b"), Assign("x", N(1)), PrintStmt(V("y")) }

ImportPrograms ==
    { <<PrintStmt(N(1)), Import("a"), PrintStmt(V("y"))>> }
    \cup { <<s1, s2>> : s1 \in ImportStmts, s2 \in ImportStmts }
    \cup { <<s1, s2, s3>> : s1 \in ImportStmts, s2 \in ImportStmts, s3 \in ImportStmts }

\* what the module files hold
ModuleBodies ==
    { <<>>,
      <<Assign("y", N(2))>>,
      <<Assign("y", V("x")), Assign("x", N(2))>>,
      <<Import("a")>>,
      <<Import("b")>>,
      <<Assign("y", N(2)), Import("b"), PrintStmt(V("y"))>>,
      <<Assign("x", BinOp(N(1), "/", N(0)))>>,
      <<PrintStmt(N(2)), Assign("y", N(3))>> }

FilesA ==
    { NoFile, Unreadable("cwd"), BadFile("pkg", "LexerError"),
      BadFile("cwd", "ParserError"), BadFile("pkgver", "ValueError") }
    \cup { Source("cwd", b) : b \in ModuleBodies }

FilesB ==
    { NoFile, Source("pkg", <<Assign("y", XPlus1)>>), Source("cwd", <<Import("a")>>),
      Source("pkgver", <<Import("b")>>) }

FileSystems == { [m \in ModuleNames |-> IF m = "a" THEN fa ELSE fb] :
                    fa \in FilesA, fb \in FilesB }

NoFiles == [m \in ModuleNames |-> NoFile]

IfConds ==
    { Comparison(V("x"), "<", N(2)),
      Comparison(V("x"), "==", N(2)),
      Comparison(V("x"), "<", S(<<"s">>)),
      N(1), S(<<>>), V("x") }

\* x = 1; if (...) { x = x + 1; } [else { y = 1; }] print(x);
IfPrograms ==
    { <<Assign("x", N(1)), If(c, <<Assign("x", XPlus1)>>, fb), PrintStmt(V("x"))>> :
        c \in IfConds, fb \in {<<>>, <<Assign("y", N(1))>>} }

\* while (x < 6000) { x = x + 1; }: more than half of max_iterations
CountUp ==
    While(Comparison(V("x"), "<", N(LongLoop)), <<Assign("x", XPlus1)>>)

\* y = 0; while (y < 2) { x = 0; while (x < 6000) { x = x + 1; } y = y + 1; }
\* print(y);
NestedLoops ==
    <<Assign("y", N(0)),
      While(Comparison(V("y"), "<", N(2)),
            <<Assign("x", N(0)), CountUp, Assign("y", BinOp(V("y"), "+", N(1)))>>),
      PrintStmt(V("y"))>>

\* x = 0; while (x < 6000) { x = x + 1; } x = 0; while (...) { ... } print(x);
SiblingLoops ==
    <<Assign("x", N(0)), CountUp, Assign("x", N(0)), CountUp, PrintStmt(V("x"))>>

\* x = 0; while (x < 6000) { x = x + 1; } while (1 == 1) { } print(x);
LoopThenEndless ==
    <<Assign("x", N(0)), CountUp, While(Comparison(N(1), "==", N(1)), <<>>),
      PrintStmt(V("x"))>>

\* try { x = 1 / 0; } catch (e) { ... }
InnerTry(cb) == TryCatch(<<Assign("x", BinOp(N(1), "/", N(0)))>>, cb, "e")

\* catch-blocks that fail (z is never bound), at once or after a statement
FailingCatchBlocks ==
    { <<Assign("y", V("z"))>>,
      <<Assign("y", N(1)), PrintStmt(V("z"))>>,
      <<If(Comparison(N(1), "==", N(1)), <<PrintStmt(V("z"))>>, <<>>)>> }

\* a TryCatch whose catch-block fails: in the try-block of another TryCatch,
\* in the catch-block of another TryCatch, and in no other TryCatch
NestedTryPrograms ==
    { <<TryCatch(<<InnerTry(cb)>>, <<PrintStmt(V("f")), PrintStmt(V("e"))>>, "f"),
        PrintStmt(V("e"))>> : cb \in FailingCatchBlocks }
    \cup { <<TryCatch(<<PrintStmt(V("z"))>>, <<InnerTry(cb)>>, "f"),
             PrintStmt(V("e"))>> : cb \in FailingCatchBlocks }
    \cup { <<InnerTry(cb), PrintStmt(V("e"))>> : cb \in FailingCatchBlocks }

\* try { import "a"; } catch (e) { print(e); } import "a"; print(y);
\* and the same with the first import not in a try-block
ImportRetryPrograms ==
    { <<TryCatch(<<Import("a")>>, <<PrintStmt(V("e"))>>, "e"),
        Import("a"), PrintStmt(V("y"))>>,
      <<TryCatch(<<Import("a"), Import("a")>>, <<Import("a")>>, "e"),
        PrintStmt(V("y"))>> }

LoopPrograms == { NestedLoops, SiblingLoops, LoopThenEndless }

Programs ==
    TryPrograms \cup WhilePrograms \cup ImportPrograms \cup IfPrograms
    \cup LoopPrograms \cup NestedTryPrograms \cup ImportRetryPrograms

RECURSIVE Imports(_)
Imports(block) ==
    \E i \in 1..Len(block) :
        \/ block[i].k = "Import"
        \/ block[i].k = "TryCatch"
             /\ (Imports(block[i].try_block) \/ Imports(block[i].catch_block))

\* the file system matters to the programs that import
FileSystemsFor(prog) == IF Imports(prog) THEN FileSystems ELSE {NoFiles}

----------------------------------------------------------------------------

\* no lexer, and no operator, is running
LexIdle ==
    /\ text = <<>> /\ pos = 0 /\ line = 1 /\ column = 1
    /\ token = [type |-> "idle"]
    /\ lexerror = <<>>
    /\ start = [pos |-> 0, line |-> 1, column |-> 1]
    /\ eofs = 0

ExprIdle ==
    /\ operands = [op |-> "none"]
    /\ result = [done |-> FALSE]

\* no interpreter is running
InterpIdle ==
    /\ ast = <<>>
    /\ files = NoFiles
    /\ stack = <<>>
    /\ interps = <<>>
    /\ heap = <<>>
    /\ out = <<>>
    /\ io = [m \in ModuleNames |-> [resolved |-> 0, read |-> 0]]
    /\ status = "idle"
    /\ error = <<>>
    /\ ev = Event("idle", NoNode)

\* main: interpreter = Interpreter(); interpreter.interpret(ast)
Init ==
    /\ ast \in Programs
    /\ files \in FileSystemsFor(ast)
    /\ stack = <<Block(ast, "program")>>
    /\ interps = <<NewInterpreter(1)>>
    /\ heap = << <<>> >>
    /\ out = <<>>
    /\ io = [m \in ModuleNames |-> [resolved |-> 0, read |-> 0]]
    /\ status = "running"
    /\ error = <<>>
    /\ ev = Event("init", [k |-> "init"])
    /\ ExprIdle
    /\ LexIdle
    /\ readable = TRUE /\ exitcode = -1

Next ==
    \/ VisitAssign
    \/ VisitPrint
    \/ VisitIf
    \/ IfEnd
    \/ VisitWhile
    \/ WhileIterate
    \/ VisitTryCatch
    \/ TryEnd
    \/ CatchEnd
    \/ ImportAgain
    \/ ImportNotFound
    \/ ImportUnreadable
    \/ ImportFrontEndError
    \/ ImportHostError
    \/ ImportRun
    \/ ImportRecursion
    \/ ModuleEnd
    \/ ProgramEnd

Spec == Init /\ [][Next]_vars

\* The programs without an Import statement.  The endless loops among them
\* have bodies that bind nothing new, the other loops count up to their end.
EndlessConds == { Comparison(N(1), "==", N(1)), Comparison(V("x"), "<", N(2)), N(0) }

ImportFreePrograms ==
    IfPrograms \cup NestedTryPrograms
    \cup { p \in TryPrograms : ~Imports(p) }
    \cup { <<Assign("x", N(0)), While(c, b), PrintStmt(V("x"))>> :
             c \in EndlessConds, b \in {<<>>, <<Assign("x", N(1))>>} }
    \cup { <<TryCatch(<<While(Comparison(N(1), "==", N(1)), <<>>)>>,
                      <<PrintStmt(V("e"))>>, "e"),
             PrintStmt(N(1))>>,
           LoopThenEndless }

InitImportFree ==
    /\ ast \in ImportFreePrograms
    /\ files = NoFiles
    /\ stack = <<Block(ast, "program")>>
    /\ interps = <<NewInterpreter(1)>>
    /\ heap = << <<>> >>
    /\ out = <<>>
    /\ io = [m \in ModuleNames |-> [resolved |-> 0, read |-> 0]]
    /\ status = "running"
    /\ error = <<>>
    /\ ev = Event("init", [k |-> "init"])
    /\ ExprIdle
    /\ LexIdle
    /\ readable = TRUE /\ exitcode = -1

\* the steps of a program without an Import statement
NextImportFree ==
    \/ VisitAssign
    \/ VisitPrint
    \/ VisitIf
    \/ IfEnd
    \/ VisitWhile
    \/ WhileIterate
    \/ VisitTryCatch
    \/ TryEnd
    \/ CatchEnd
    \/ ProgramEnd

\* the interpreter runs on: a statement that can be executed is executed
SpecTerminates ==
    InitImportFree /\ [][NextImportFree]_vars /\ WF_vars(NextImportFree)

----------------------------------------------------------------------------
(* The lexer.  A character is a one-element atom; "da" and "yin" stand for  *)
(* the two characters of the keyword PRINT (and "ru" "guo" for IF, "fou"    *)
(* "ze" for ELSE, "xun" "huan" for WHILE, "dao" "ru4" for IMPORT, "chang"   *)
(* "shi" for TRY, "bu" "huo" for CATCH), and "sup2" for a superscript two,  *)
(* a character str.isdigit accepts and int() rejects.                       *)

None == "None"
NoneVal == [t |-> "None", n |-> 0, d |-> 1, s |-> <<>>]

AsciiDigits == {"0", "1", "2", "3", "4", "5", "6", "7", "8", "9"}
Letters ==
    {"x", "y", "e", "n", "t", "a", "b", "da", "yin", "ru", "guo", "fou", "ze",
     "xun", "huan", "dao", "ru4", "chang", "shi", "bu", "huo"}

\* str.isspace, str.isdigit, str.isalpha, str.isalnum
isspace(ch) == ch \in {" ", "\n", "\t", "\r"}
isdigit(ch) == ch \in AsciiDigits \cup {"sup2"}
isalpha(ch) == ch \in Letters
isalnum(ch) == isalpha(ch) \/ isdigit(ch)

\* the keywords table of Lexer.identifier: keywords.get(result, IDENTIFIER)
keywords(word) ==
    CASE word = <<"da", "yin">> -> "PRINT"
      [] word = <<"ru", "guo">> -> "IF"
      [] word = <<"fou", "ze">> -> "ELSE"
      [] word = <<"xun", "huan">> -> "WHILE"
      [] word = <<"dao", "ru4">> -> "IMPORT"
      [] word = <<"chang", "shi">> -> "TRY"
      [] word = <<"bu", "huo">> -> "CATCH"
      [] OTHER -> "IDENTIFIER"

\* the one-character tokens of get_next_token
SingleChars == {";", "(", ")", "{", "}", "+", "-", "*", "/"}
SingleType(ch) ==
    CASE ch = ";" -> "SEMICOLON" [] ch = "(" -> "LPAREN" [] ch = ")" -> "RPAREN"
      [] ch = "{" -> "LBRACE" [] ch = "}" -> "RBRACE" [] ch = "+" -> "PLUS"
      [] ch = "-" -> "MINUS" [] ch = "*" -> "MULTIPLY" [] ch = "/" -> "DIVIDE"

\* Token.__init__
Token(type, value, ln, col) ==
    [type |-> type, value |-> value, line |-> ln, column |-> col]

NoToken == Token("none", NoneVal, 0, 0)

\* a lexer cursor: pos, line and column; current_char is the character at pos
Cursor(p, ln, col) == [pos |-> p, line |-> ln, column |-> col]

current_char(txt, c) == IF c.pos >= Len(txt) THEN None ELSE txt[c.pos + 1]

\* Lexer.advance
advance(txt, c) ==
    IF current_char(txt, c) = "\n"
    THEN Cursor(c.pos + 1, c.line + 1, 1)
    ELSE Cursor(c.pos + 1, c.line, c.column + 1)

\* Lexer.skip_comment
RECURSIVE skip_comment(_, _)
skip_comment(txt, c) ==
    IF current_char(txt, c) # None /\ current_char(txt, c) # "\n"
    THEN skip_comment(txt, advance(txt, c))
    ELSE IF current_char(txt, c) = "\n" THEN advance(txt, c) ELSE c

\* the head of the loop of get_next_token: skip_whitespace and skip_comment
\* until a character that starts a token, or the end of the text
RECURSIVE SkipBlanks(_, _)
SkipBlanks(txt, c) ==
    IF current_char(txt, c) = None THEN c
    ELSE IF isspace(current_char(txt, c)) THEN SkipBlanks(txt, advance(txt, c))
    ELSE IF current_char(txt, c) = "#" THEN SkipBlanks(txt, skip_comment(txt, c))
    ELSE c

\* Lexer.error: "{filename}:{line}:{column}: {msg}"
LexErrorText(c, msg) ==
    <<"<unknown>", ":">> \o IntStr(c.line) \o <<":">> \o IntStr(c.column) \o <<": ">> \o msg

Scanned(c, v) == [ok |-> TRUE, c |-> c, value |-> v, msg |-> <<>>]
ScanError(c, msg) == [ok |-> FALSE, c |-> c, value |-> NoneVal, msg |-> msg]

\* the loop of Lexer.string, after the opening quote
RECURSIVE StringBody(_, _, _)
StringBody(txt, c, acc) ==
    LET ch == current_char(txt, c)
    IN IF ch = None
       THEN ScanError(c, LexErrorText(c, <<"Unterminated string">>))   \* "未结束的字符串"
       ELSE IF ch = "\""
       THEN Scanned(advance(txt, c), StrVal(acc))
       ELSE IF ch = "\\"
       THEN LET c2 == advance(txt, c)
                e == current_char(txt, c2)
            IN IF e \in {"n", "t", "\"", "\\"}
               THEN StringBody(txt, advance(txt, c2),
                               Append(acc, CASE e = "n" -> "\n" [] e = "t" -> "\t"
                                             [] OTHER -> e))
               \* "未知的转义序列: \{current_char}"
               ELSE ScanError(c2, LexErrorText(c2, <<"Unknown escape sequence: ", "\\", e>>))
       ELSE StringBody(txt, advance(txt, c), Append(acc, ch))

\* Lexer.string
string(txt, c) == StringBody(txt, advance(txt, c), <<>>)

\* the digits at the cursor: `while ... isdigit()`
RECURSIVE DigitRun(_, _)
DigitRun(txt, c) ==
    IF current_char(txt, c) # None /\ isdigit(current_char(txt, c))
    THEN DigitRun(txt, advance(txt, c)) ELSE c

DigitValue(ch) == CHOOSE i \in 0..9 : Digit(i) = ch

RECURSIVE ParseNat(_)
ParseNat(ds) ==
    IF ds = <<>> THEN 0 ELSE ParseNat(Front(ds)) * 10 + DigitValue(Last(ds))

RECURSIVE Pow10(_)
Pow10(k) == IF k = 0 THEN 1 ELSE 10 * Pow10(k - 1)

AllAscii(ds) == \A i \in 1..Len(ds) : ds[i] \in AsciiDigits

\* Lexer.number: int(result) or float(result), which raise ValueError on a
\* digit that is no decimal digit
number(txt, c) ==
    LET c1 == DigitRun(txt, c)
        ip == SubSeq(txt, c.pos + 1, c1.pos)
    IN IF current_char(txt, c1) = "."
       THEN LET c2 == DigitRun(txt, advance(txt, c1))
                fp == SubSeq(txt, c1.pos + 2, c2.pos)
            IN IF AllAscii(ip) /\ AllAscii(fp)
               THEN Scanned(c2, MkFloat(ParseNat(ip) * Pow10(Len(fp)) + ParseNat(fp),
                                        Pow10(Len(fp))))
               ELSE ScanError(c2, <<"could not convert string to float">>)
       ELSE IF AllAscii(ip)
            THEN Scanned(c1, IntVal(ParseNat(ip)))
            ELSE ScanError(c1, <<"invalid literal for int() with base 10">>)

\* the loop of Lexer.identifier
RECURSIVE WordRun(_, _)
WordRun(txt, c) ==
    IF current_char(txt, c) # None
       /\ (isalnum(current_char(txt, c)) \/ current_char(txt, c) = "_")
    THEN WordRun(txt, advance(txt, c)) ELSE c

Here == Cursor(pos, line, column)

\* where get_next_token meets the first character of a token
AtToken == SkipBlanks(text, Here)
FirstChar == current_char(text, AtToken)

LexReady == lexerror = <<>> /\ token.type # "idle"

\* get_next_token returns tok with the cursor at c
Return(tok, c) ==
    /\ token' = tok
    /\ pos' = c.pos /\ line' = c.line /\ column' = c.column
    /\ start' = AtToken
    /\ eofs' = IF tok.type = "EOF" THEN eofs + 1 ELSE eofs
    /\ UNCHANGED <<text, lexerror>>

\* get_next_token raises, with the cursor at c
LexRaise(msg, c) ==
    /\ lexerror' = msg
    /\ pos' = c.pos /\ line' = c.line /\ column' = c.column
    /\ start' = AtToken
    /\ UNCHANGED <<text, token, eofs>>

\* the position arguments of Token(...), evaluated with the cursor at c
TokenAt(type, value, c) == Token(type, value, c.line, c.column)

\* the most calls of get_next_token at the end of a text
MaxEofs == 3

\* a get_next_token that steps past the end of the text when it returns EOF
LexEofAdvances ==
    /\ LexReady
    /\ eofs < MaxEofs
    /\ FirstChar = None
    /\ Return(TokenAt("EOF", NoneVal, AtToken), advance(text, AtToken))
    /\ UNCHANGED <<interpvars, exprvars, mainvars>>

\* get_next_token at the end of the text
LexEof ==
    /\ LexReady
    /\ eofs < MaxEofs
    /\ FirstChar = None
    /\ Return(TokenAt("EOF", NoneVal, AtToken), AtToken)
    /\ UNCHANGED <<interpvars, exprvars, mainvars>>

\* get_next_token at a quote: Token(STRING, self.string(), self.line, self.column)
LexString ==
    /\ LexReady
    /\ FirstChar = "\""
    /\ LET r == string(text, AtToken)
       IN IF r.ok THEN Return(TokenAt("STRING", r.value, r.c), r.c)
          ELSE LexRaise(r.msg, r.c)
    /\ UNCHANGED <<interpvars, exprvars, mainvars>>

\* get_next_token at a digit: Token(NUMBER, self.number(), self.line, self.column)
LexNumber ==
    /\ LexReady
    /\ FirstChar # None /\ isdigit(FirstChar)
    /\ LET r == number(text, AtToken)
       IN IF r.ok THEN Return(TokenAt("NUMBER", r.value, r.c), r.c)
          ELSE LexRaise(r.msg, r.c)
    /\ UNCHANGED <<interpvars, exprvars, mainvars>>

\* get_next_token at a letter or underscore:
\* token_type, value = self.identifier(); Token(token_type, value, self.line, self.column)
LexIdentifier ==
    /\ LexReady
    /\ FirstChar # None /\ (isalpha(FirstChar) \/ FirstChar = "_")
    /\ LET c == WordRun(text, AtToken)
           word == SubSeq(text, AtToken.pos + 1, c.pos)
       IN Return(TokenAt(keywords(word), StrVal(word), c), c)
    /\ UNCHANGED <<interpvars, exprvars, mainvars>>

\* a get_next_token that returns a one-character token and stays before it
LexSingleStays ==
    /\ LexReady
    /\ FirstChar \in SingleChars
    /\ Return(TokenAt(SingleType(FirstChar), StrVal(<<FirstChar>>), AtToken), AtToken)
    /\ UNCHANGED <<interpvars, exprvars, mainvars>>

\* get_next_token at a one-character token: the Token is made, then advance
LexSingle ==
    /\ LexReady
    /\ FirstChar \in SingleChars
    /\ Return(TokenAt(SingleType(FirstChar), StrVal(<<FirstChar>>), AtToken),
              advance(text, AtToken))
    /\ UNCHANGED <<interpvars, exprvars, mainvars>>

\* get_next_token at `=`: ASSIGN, or COMPARISON `==`
LexAssign ==
    /\ LexReady
    /\ FirstChar = "="
    /\ LET c == advance(text, AtToken)
       IN IF current_char(text, c) = "="
          THEN Return(TokenAt("COMPARISON", StrVal(<<"=", "=">>), AtToken),
                      advance(text, c))
          ELSE Return(TokenAt("ASSIGN", StrVal(<<"=">>), AtToken), c)
    /\ UNCHANGED <<interpvars, exprvars, mainvars>>

\* get_next_token at `<`, `>` or `!`, each with or without a following `=`
LexComparison ==
    /\ LexReady
    /\ FirstChar \in {"<", ">", "!"}
    /\ LET c == advance(text, AtToken)
       IN IF current_char(text, c) = "="
          THEN Return(TokenAt("COMPARISON", StrVal(<<FirstChar, "=">>), AtToken),
                      advance(text, c))
          ELSE Return(TokenAt("COMPARISON", StrVal(<<FirstChar>>), AtToken), c)
    /\ UNCHANGED <<interpvars, exprvars, mainvars>>

\* get_next_token at any other character: "无法识别的字符: '{current_char}'"
LexUnknown ==
    /\ LexReady
    /\ FirstChar \notin {None, "\"", "_", "=", "<", ">", "!"} \cup SingleChars
    /\ ~isdigit(FirstChar) /\ ~isalpha(FirstChar)
    /\ LexRaise(LexErrorText(AtToken, <<"Unrecognised character: '", FirstChar, "'">>),
                AtToken)
    /\ UNCHANGED <<interpvars, exprvars, mainvars>>

\* the pieces the texts are made of
Pieces ==
    { <<"da", "yin">>, <<"x", "1">>, <<"1", "2">>, <<"1", ".", "2">>, <<"sup2">>,
      <<"\"", "x", "\"">>, <<"\"", "\\", "n", "\n", "\"">>, <<"\"", "x">>,
      <<" ">>, <<"\n">>, <<"#", "x", "\n">>,
      <<";">>, <<"=">>, <<"!">>, <<"?">> }

\* the most pieces in a text
MaxPieces == 3

RECURSIVE TextsOf(_)
TextsOf(k) ==
    IF k = 0 THEN {<<>>}
    ELSE LET shorter == TextsOf(k - 1)
         IN shorter \cup { t \o p : t \in shorter, p \in Pieces }

Texts == TextsOf(MaxPieces)

\* Lexer.__init__
InitLexer ==
    /\ text \in Texts
    /\ pos = 0 /\ line = 1 /\ column = 1
    /\ token = NoToken
    /\ lexerror = <<>>
    /\ start = Cursor(0, 1, 1)
    /\ eofs = 0
    /\ InterpIdle
    /\ ExprIdle
    /\ readable = TRUE /\ exitcode = -1

NextLexer ==
    \/ LexEof
    \/ LexString
    \/ LexNumber
    \/ LexIdentifier
    \/ LexSingle
    \/ LexAssign
    \/ LexComparison
    \/ LexUnknown

SpecLexer == InitLexer /\ [][NextLexer]_vars

----------------------------------------------------------------------------
(* get_next_token as a function of the text and the cursor, for the parser, *)
(* which calls it from eat.  A result is the token and the cursor after it, *)
(* or the exception raised: a LexerError, or the ValueError of int().       *)

TokOk(tok, c) == [ok |-> TRUE, tok |-> tok, c |-> c, kind |-> "none", msg |-> <<>>]
TokErr(kind, msg, c) ==
    [ok |-> FALSE, tok |-> NoToken, c |-> c, kind |-> kind, msg |-> msg]

\* Token(type, self.string() or self.number(), self.line, self.column), or the
\* exception the scan raised
ScannedToken(type, r, kind) ==
    IF r.ok THEN TokOk(TokenAt(type, r.value, r.c), r.c) ELSE TokErr(kind, r.msg, r.c)

\* the IDENTIFIER or keyword token of the word that ends at c2
WordToken(txt, c, c2) ==
    TokOk(TokenAt(keywords(SubSeq(txt, c.pos + 1, c2.pos)),
                  StrVal(SubSeq(txt, c.pos + 1, c2.pos)), c2), c2)

\* the token that starts with ch, or with ch and a following `=`
MaybeWithEquals(txt, c, c1, type, ch) ==
    IF current_char(txt, c1) = "="
    THEN TokOk(TokenAt("COMPARISON", StrVal(<<ch, "=">>), c), advance(txt, c1))
    ELSE TokOk(TokenAt(type, StrVal(<<ch>>), c), c1)

\* the branches of get_next_token at the character ch, which stands at c
\* (c1 is the cursor after it)
TokenAtChar(txt, c, ch, c1) ==
    CASE ch = None -> TokOk(TokenAt("EOF", NoneVal, c), c)
      [] ch = "\"" -> ScannedToken("STRING", string(txt, c), "LexerError")
      [] ch # None /\ isdigit(ch) -> ScannedToken("NUMBER", number(txt, c), "ValueError")
      [] ch # None /\ (isalpha(ch) \/ ch = "_") -> WordToken(txt, c, WordRun(txt, c))
      [] ch \in SingleChars -> TokOk(TokenAt(SingleType(ch), StrVal(<<ch>>), c), c1)
      [] ch = "=" -> MaybeWithEquals(txt, c, c1, "ASSIGN", ch)
      [] ch \in {"<", ">", "!"} -> MaybeWithEquals(txt, c, c1, "COMPARISON", ch)
      [] OTHER ->
            TokErr("LexerError",
                   LexErrorText(c, <<"Unrecognised character: '", ch, "'">>), c)

\* get_next_token with the cursor at a character that is no blank
TokenFrom(txt, c) == TokenAtChar(txt, c, current_char(txt, c), advance(txt, c))

get_next_token(txt, c0) == TokenFrom(txt, SkipBlanks(txt, c0))

\* The tokens the calls of get_next_token yield one after the other, from
\* the cursor c up to the EOF token, or up to the call that raises: that
\* call is the last entry, of type "raise", with the exception.  The calls
\* are counted off in halves (the first n \div 2 of at most n calls, then
\* the rest from where these ended), which keeps the evaluation shallow.
RaiseToken(r) == [type |-> "raise", kind |-> r.kind, msg |-> r.msg]

\* one call: its entry, the cursor after it, and whether it was the last
OneCall(r) ==
    [toks |-> <<IF r.ok THEN r.tok ELSE RaiseToken(r)>>, c |-> r.c,
     last |-> ~r.ok \/ r.tok.type = "EOF"]

RECURSIVE Calls(_, _, _)
\* the calls h, and at most n more unless h ended the sequence
MoreCalls(txt, h, n) ==
    IF h.last THEN h
    ELSE CHOOSE v \in { [toks |-> h.toks \o t.toks, c |-> t.c, last |-> t.last] :
                        t \in {Calls(txt, h.c, n)} } : TRUE

\* at most n calls from the cursor c
Calls(txt, c, n) ==
    IF n = 1 THEN OneCall(get_next_token(txt, c))
    ELSE CHOOSE v \in { MoreCalls(txt, h, n - (n \div 2)) :
                        h \in {Calls(txt, c, n \div 2)} } : TRUE

\* every call yields a token of at least one character, or is the last
Tokens(txt, c) == Calls(txt, c, Len(txt) + 1).toks

----------------------------------------------------------------------------
(* The parser.  It takes its tokens from get_next_token one at a time, in   *)
(* order; toks is the sequence of what these calls yield, and the parser's  *)
(* state is the current token and its index in toks.  A parse result is the *)
(* node (or the statement list) and the state after it, or the exception    *)
(* raised: a ParserError, or what get_next_token raised.                    *)

\* the characters of a lexeme as one name: Python's str of the characters
RECURSIVE Concat(_)
Concat(w) == IF w = <<>> THEN "" ELSE w[1] \o Concat(Tail(w))

PState(tok, i) == [tok |-> tok, i |-> i]
NoState == PState(NoToken, 0)

POk(node, st) ==
    [ok |-> TRUE, node |-> node, stmts |-> <<>>, st |-> st, kind |-> "none", msg |-> <<>>]
PStmts(stmts, st) ==
    [ok |-> TRUE, node |-> NoNode, stmts |-> stmts, st |-> st, kind |-> "none", msg |-> <<>>]
PFail(kind, msg) ==
    [ok |-> FALSE, node |-> NoNode, stmts |-> <<>>, st |-> NoState, kind |-> kind, msg |-> msg]

\* Parser.error: "{filename}:{token.line}:{token.column}: {msg}"
ParseErrorText(tok, msg) ==
    <<"<unknown>", ":">> \o IntStr(tok.line) \o <<":">> \o IntStr(tok.column)
    \o <<": ">> \o msg

\* sequencing: the call that yielded r has returned, and K goes on with its
\* result; an exception raised by the call propagates instead
AndThen(call, K(_)) ==
    CHOOSE v \in { IF r.ok THEN K(r) ELSE r : r \in {call} } : TRUE

\* self.current_token = self.lexer.get_next_token()
NextState(toks, st, node) ==
    IF toks[st.i + 1].type = "raise"
    THEN PFail(toks[st.i + 1].kind, toks[st.i + 1].msg)
    ELSE POk(node, PState(toks[st.i + 1], st.i + 1))

\* Parser.__init__
NewParser(toks) == NextState(toks, NoState, NoNode)

\* Parser.eat: "期望 {token_type}, 得到 {self.current_token.type}"
eat(toks, st, type) ==
    IF st.tok.type = type THEN NextState(toks, st, NoNode)
    ELSE PFail("ParserError",
               ParseErrorText(st.tok, <<"Expected ", type, ", got ", st.tok.type>>))

\* a run of eat calls
RECURSIVE EatAll(_, _, _)
EatAll(toks, st, types) ==
    IF types = <<>> THEN POk(NoNode, st)
    ELSE AndThen(eat(toks, st, types[1]), LAMBDA r : EatAll(toks, r.st, Tail(types)))

RECURSIVE factor(_, _)
RECURSIVE TermLoop(_, _, _)
RECURSIVE ExprLoop(_, _, _)
RECURSIVE BlockLoop(_, _, _, _)
RECURSIVE statement(_, _)

\* Parser.term
term(toks, st) == AndThen(factor(toks, st), LAMBDA f : TermLoop(toks, f.node, f.st))

\* the loop of Parser.term: `while self.current_token.type in (MULTIPLY, DIVIDE)`
TermLoop(toks, left, st) ==
    IF st.tok.type \in {"MULTIPLY", "DIVIDE"}
    THEN AndThen(eat(toks, st, st.tok.type), LAMBDA e :
         AndThen(factor(toks, e.st), LAMBDA f :
         TermLoop(toks, BinOp(left, Concat(st.tok.value.s), f.node), f.st)))
    ELSE POk(left, st)

\* Parser.expr
expr(toks, st) == AndThen(term(toks, st), LAMBDA t : ExprLoop(toks, t.node, t.st))

\* the loop of Parser.expr: `while self.current_token.type in (PLUS, MINUS)`
\* expr with the loop replaced by a recursive call for the right operand
ExprLoopRight(toks, left, st) ==
    IF st.tok.type \in {"PLUS", "MINUS"}
    THEN AndThen(eat(toks, st, st.tok.type), LAMBDA e :
         AndThen(expr(toks, e.st), LAMBDA t :
         POk(BinOp(left, Concat(st.tok.value.s), t.node), t.st)))
    ELSE POk(left, st)

ExprLoop(toks, left, st) ==
    IF st.tok.type \in {"PLUS", "MINUS"}
    THEN AndThen(eat(toks, st, st.tok.type), LAMBDA e :
         AndThen(term(toks, e.st), LAMBDA t :
         ExprLoop(toks, BinOp(left, Concat(st.tok.value.s), t.node), t.st)))
    ELSE POk(left, st)

\* Parser.factor: "意外的标记: {token.type}"
factor(toks, st) ==
    CASE st.tok.type = "NUMBER" -> NextState(toks, st, Number(st.tok.value))
      [] st.tok.type = "STRING" -> NextState(toks, st, String(st.tok.value.s))
      [] st.tok.type = "IDENTIFIER" ->
            NextState(toks, st, Variable(Concat(st.tok.value.s)))
      [] st.tok.type = "LPAREN" ->
            AndThen(eat(toks, st, "LPAREN"), LAMBDA l :
            AndThen(expr(toks, l.st), LAMBDA n :
            AndThen(eat(toks, n.st, "RPAREN"), LAMBDA r : POk(n.node, r.st))))
      [] OTHER ->
            PFail("ParserError",
                  ParseErrorText(st.tok, <<"Unexpected token: ", st.tok.type>>))

\* Parser.comparison
comparison(toks, st) ==
    AndThen(expr(toks, st), LAMBDA l :
       IF l.st.tok.type = "COMPARISON"
       THEN AndThen(eat(toks, l.st, "COMPARISON"), LAMBDA e :
            AndThen(expr(toks, e.st), LAMBDA r :
            POk(Comparison(l.node, Concat(l.st.tok.value.s), r.node), r.st)))
       ELSE l)

\* the loop of Parser.block and Parser.parse: statements up to a token of `stop`
BlockLoop(toks, st, acc, stop) ==
    IF st.tok.type \in stop THEN PStmts(acc, st)
    ELSE AndThen(statement(toks, st), LAMBDA s :
         BlockLoop(toks, s.st, Append(acc, s.node), stop))

\* Parser.block
block(toks, st) == BlockLoop(toks, st, <<>>, {"RBRACE", "EOF"})

\* eat(LBRACE); self.block(); eat(RBRACE)
Braced(toks, st) ==
    AndThen(eat(toks, st, "LBRACE"), LAMBDA l :
    AndThen(block(toks, l.st), LAMBDA b :
    AndThen(eat(toks, b.st, "RBRACE"), LAMBDA r : PStmts(b.stmts, r.st))))

\* the PRINT branch of Parser.statement
PrintStatement(toks, st) ==
    AndThen(EatAll(toks, st, <<"PRINT", "LPAREN">>), LAMBDA h :
    AndThen(expr(toks, h.st), LAMBDA e :
    AndThen(EatAll(toks, e.st, <<"RPAREN", "SEMICOLON">>), LAMBDA t :
    POk(PrintStmt(e.node), t.st))))

\* the IDENTIFIER branch of Parser.statement
\* an assignment whose right side is parsed as a comparison
AssignStatementComparison(toks, st) ==
    AndThen(EatAll(toks, st, <<"IDENTIFIER", "ASSIGN">>), LAMBDA h :
    AndThen(comparison(toks, h.st), LAMBDA e :
    AndThen(eat(toks, e.st, "SEMICOLON"), LAMBDA t :
    POk(Assign(Concat(st.tok.value.s), e.node), t.st))))

AssignStatement(toks, st) ==
    AndThen(EatAll(toks, st, <<"IDENTIFIER", "ASSIGN">>), LAMBDA h :
    AndThen(expr(toks, h.st), LAMBDA e :
    AndThen(eat(toks, e.st, "SEMICOLON"), LAMBDA t :
    POk(Assign(Concat(st.tok.value.s), e.node), t.st))))

\* eat(keyword); eat(LPAREN); self.comparison(); eat(RPAREN); { block }
\* the condition is the node, the block the statement list
Conditional(toks, st, keyword) ==
    AndThen(EatAll(toks, st, <<keyword, "LPAREN">>), LAMBDA h :
    AndThen(comparison(toks, h.st), LAMBDA c :
    AndThen(eat(toks, c.st, "RPAREN"), LAMBDA r :
    AndThen(Braced(toks, r.st), LAMBDA b : [b EXCEPT !.node = c.node]))))

\* the IF branch of Parser.statement
IfStatement(toks, st) ==
    AndThen(Conditional(toks, st, "IF"), LAMBDA c :
       IF c.st.tok.type = "ELSE"
       THEN AndThen(eat(toks, c.st, "ELSE"), LAMBDA e :
            AndThen(Braced(toks, e.st), LAMBDA f :
            POk(If(c.node, c.stmts, f.stmts), f.st)))
       ELSE POk(If(c.node, c.stmts, <<>>), c.st))

\* the WHILE branch of Parser.statement
WhileStatement(toks, st) ==
    AndThen(Conditional(toks, st, "WHILE"), LAMBDA c : POk(While(c.node, c.stmts), c.st))

\* the IMPORT branch of Parser.statement: "期望字符串作为模块名"
ImportStatement(toks, st) ==
    AndThen(eat(toks, st, "IMPORT"), LAMBDA h :
       IF h.st.tok.type # "STRING"
       THEN PFail("ParserError",
                  ParseErrorText(h.st.tok, <<"Expected a string as the module name">>))
       ELSE AndThen(EatAll(toks, h.st, <<"STRING", "SEMICOLON">>), LAMBDA t :
            POk(Import(Concat(h.st.tok.value.s)), t.st)))

\* the clause `(name)` after CATCH; the default error variable is "_error"
CatchClause(toks, st) ==
    IF st.tok.type = "LPAREN"
    THEN AndThen(eat(toks, st, "LPAREN"), LAMBDA l :
            IF l.st.tok.type = "IDENTIFIER"
            THEN AndThen(EatAll(toks, l.st, <<"IDENTIFIER", "RPAREN">>), LAMBDA r :
                 POk(Variable(Concat(l.st.tok.value.s)), r.st))
            ELSE AndThen(eat(toks, l.st, "RPAREN"), LAMBDA r :
                 POk(Variable("_error"), r.st)))
    ELSE POk(Variable("_error"), st)

\* the TRY branch of Parser.statement
TryStatement(toks, st) ==
    AndThen(eat(toks, st, "TRY"), LAMBDA h :
    AndThen(Braced(toks, h.st), LAMBDA t :
    AndThen(eat(toks, t.st, "CATCH"), LAMBDA k :
    AndThen(CatchClause(toks, k.st), LAMBDA v :
    AndThen(Braced(toks, v.st), LAMBDA c :
    POk(TryCatch(t.stmts, c.stmts, v.node.name), c.st))))))

\* Parser.statement: "意外的语句: {token.type}"
statement(toks, st) ==
    CASE st.tok.type = "PRINT" -> PrintStatement(toks, st)
      [] st.tok.type = "IDENTIFIER" -> AssignStatement(toks, st)
      [] st.tok.type = "IF" -> IfStatement(toks, st)
      [] st.tok.type = "WHILE" -> WhileStatement(toks, st)
      [] st.tok.type = "IMPORT" -> ImportStatement(toks, st)
      [] st.tok.type = "TRY" -> TryStatement(toks, st)
      [] OTHER ->
            PFail("ParserError",
                  ParseErrorText(st.tok, <<"Unexpected statement: ", st.tok.type>>))

\* Parser(Lexer(text)).parse(): the statement list, or the exception raised
ParseTokens(toks) ==
    AndThen(NewParser(toks), LAMBDA p : BlockLoop(toks, p.st, <<>>, {"EOF"}))

parse(txt) == ParseTokens(Tokens(txt, Cursor(0, 1, 1)))

----------------------------------------------------------------------------
(* main, run on a file: it reads the file, lexes and parses the text, runs  *)
(* the program in a new Interpreter, and returns the exit code.  What main  *)
(* prints itself goes to the same output as the lines of the program.       *)

\* a module file holding the text txt: what Lexer and Parser make of it
FromText(loc, txt) ==
    LET p == parse(txt)
    IN [loc |-> loc, readable |-> TRUE,
        src |-> IF p.ok THEN "ok" ELSE p.kind,
        ast |-> IF p.ok THEN p.stmts ELSE <<>>]

\* "错误: 无法读取文件 '{filename}': {str(e)}"
MsgCannotRead == <<"Error: cannot read file">>

\* "错误: {e}"
MsgError(e) == <<"Error: ">> \o e

\* "意外错误: {e}"
MsgUnexpected(e) == <<"Unexpected error: ">> \o e

\* main returns 0 whatever happened
ExitZero(code, printed) ==
    /\ exitcode' = 0
    /\ status' = "exited"
    /\ out' = printed

\* main returns code, having printed what it prints itself
Exit(code, printed) ==
    /\ exitcode' = code
    /\ status' = "exited"
    /\ out' = printed

\* main: open(filename) or f.read() raises; return 1
MainReadError ==
    /\ status = "start"
    /\ ~readable
    /\ Exit(1, Append(out, MsgCannotRead))
    /\ ev' = Event("MainReadError", NoNode)
    /\ UNCHANGED <<ast, files, stack, interps, heap, io, error, readable>>
    /\ UNCHANGED <<exprvars, lexvars>>

\* main: the Lexer or the Parser raises; `except MyLangError` or
\* `except Exception` prints the error; return 1
MainParseError ==
    /\ status = "start"
    /\ readable
    /\ LET p == parse(text)
       IN /\ ~p.ok
          /\ Exit(1, Append(out, IF p.kind \in {"LexerError", "ParserError"}
                                 THEN MsgError(p.msg) ELSE MsgUnexpected(p.msg)))
          /\ error' = p.msg
          /\ ev' = Event(p.kind, NoNode)
    /\ UNCHANGED <<ast, files, stack, interps, heap, io, readable>>
    /\ UNCHANGED <<exprvars, lexvars>>

\* main begins to interpret what was parsed, whether parse() raised or not
MainInterpretUnparsed ==
    /\ status = "start"
    /\ readable
    /\ ast' = parse(text).stmts
    /\ stack' = <<Block(parse(text).stmts, "program")>>
    /\ interps' = <<NewInterpreter(1)>>
    /\ heap' = << <<>> >>
    /\ status' = "running"
    /\ ev' = Event("MainInterpret", NoNode)
    /\ UNCHANGED <<files, out, io, error, readable, exitcode>>
    /\ UNCHANGED <<exprvars, lexvars>>

\* main: ast = parser.parse(); interpreter = Interpreter(); interpret begins
MainInterpret ==
    /\ status = "start"
    /\ readable
    /\ LET p == parse(text)
       IN /\ p.ok
          /\ ast' = p.stmts
          /\ stack' = <<Block(p.stmts, "program")>>
    /\ interps' = <<NewInterpreter(1)>>
    /\ heap' = << <<>> >>
    /\ status' = "running"
    /\ ev' = Event("MainInterpret", NoNode)
    /\ UNCHANGED <<files, out, io, error, readable, exitcode>>
    /\ UNCHANGED <<exprvars, lexvars>>

\* main: interpret returned; return 0
MainReturn ==
    /\ status = "done"
    /\ Exit(0, out)
    /\ ev' = Event("MainReturn", NoNode)
    /\ UNCHANGED <<ast, files, stack, interps, heap, io, error, readable>>
    /\ UNCHANGED <<exprvars, lexvars>>

\* main: a RuntimeError escaped interpret; `except MyLangError` prints it;
\* return 1
MainRuntimeError ==
    /\ status = "error"
    /\ Exit(1, Append(out, MsgError(error)))
    /\ ev' = Event("MainRuntimeError", NoNode)
    /\ UNCHANGED <<ast, files, stack, interps, heap, io, error, readable>>
    /\ UNCHANGED <<exprvars, lexvars>>

----------------------------------------------------------------------------
(* The source texts main is run on, written by statement.                   *)

PrintText(e) == <<"da", "yin", "(">> \o e \o <<")", ";">>
AssignText(v, e) == <<v, "=">> \o e \o <<";">>
IfText(c, tb) == <<"ru", "guo", "(">> \o c \o <<")", "{">> \o tb \o <<"}">>
ElseText(fb) == <<"fou", "ze", "{">> \o fb \o <<"}">>
WhileText(c, b) == <<"xun", "huan", "(">> \o c \o <<")", "{">> \o b \o <<"}">>
ImportText(m) == <<"dao", "ru4", "\"", m, "\"", ";">>
TryText(tb, v, cb) ==
    <<"chang", "shi", "{">> \o tb \o <<"}", "bu", "huo", "(", v, ")", "{">> \o cb \o <<"}">>

\* 1 ! 1
OneBangOne == <<"1", "!", "1">>

\* the statements the texts are made of, well-formed and not
MainPieces ==
    { PrintText(<<"1">>),
      AssignText("x", <<"1">>),
      PrintText(<<"x">>),
      IfText(<<"x", "<", "2">>, PrintText(<<"2">>)) \o ElseText(AssignText("x", <<"2">>)),
      IfText(OneBangOne, PrintText(<<"2">>)),
      WhileText(<<"x", "!", "1">>, <<>>),
      AssignText("x", OneBangOne),
      <<"?">>,
      AssignText("x", <<>>),
      <<"\"", "x">>,
      AssignText("x", <<"sup2">>),
      AssignText("x", <<"1", "/", "0">>),
      ImportText("a"),
      TryText(ImportText("a") \o PrintText(<<"y">>), "e", PrintText(<<"e">>)),
      TryText(IfText(OneBangOne, <<>>), "e", PrintText(<<"e">>)) }

\* 1 == 1
OneIsOne == <<"1", "=", "=", "1">>

\* loops that run into the iteration limit
LoopTexts ==
    { WhileText(OneIsOne, <<>>),
      TryText(WhileText(OneIsOne, <<>>), "e", PrintText(<<"e">>)) \o PrintText(<<"1">>) }

ExprOperators == {"+", "-", "*", "/"}

\* print(a o1 b o2 c);
ExprTexts ==
    { PrintText(<<a, o1, b, o2, c>>) :
        a \in {"7", "8"}, b \in {"4", "2"}, c \in {"2", "1"},
        o1 \in ExprOperators, o2 \in ExprOperators }
    \cup { PrintText(<<"2", "+", "3", "*", "4">>) }

\* the operands and operators of the assignments: 1, 4, "x"
AssignOperands == { <<"1">>, <<"4">>, <<"\"", "x", "\"">> }
AssignOperators == { <<"+">>, <<"-">>, <<"*">>, <<"/">>, <<"<">>, <<"=", "=">> }

\* x = a o b; print(x);   and   x = (1 < 4); print(x);
AssignTexts ==
    { AssignText("x", a \o o \o b) \o PrintText(<<"x">>) :
        a \in AssignOperands, b \in AssignOperands, o \in AssignOperators }
    \cup { AssignText("x", <<"(", "1", "<", "4", ")">>) \o PrintText(<<"x">>),
           PrintText(<<"1", "<", "4">>) }

MainTexts ==
    { p \o q : p \in MainPieces \cup {<<>>}, q \in MainPieces \cup {<<>>} }
    \cup LoopTexts \cup ExprTexts \cup AssignTexts

\* what the file of module a holds
ModuleTexts ==
    { PrintText(<<"2">>) \o AssignText("y", <<"3">>),
      AssignText("y", <<"3">>) \o PrintText(<<"2">>) \o <<"?">>,
      PrintText(<<"2">>) \o AssignText("x", <<>>),
      PrintText(<<"2">>) \o IfText(OneBangOne, <<>>),
      AssignText("x", <<"sup2">>),
      ImportText("a") }

MainFilesA ==
    { NoFile, Unreadable("pkg") } \cup { FromText("cwd", t) : t \in ModuleTexts }

\* the text has an Import among its tokens
ImportsIn(txt) == \E i \in 1..Len(txt) : txt[i] = "dao"

MainFileSystemsFor(txt) ==
    IF ImportsIn(txt)
    THEN { [m \in ModuleNames |-> IF m = "a" THEN fa ELSE NoFile] : fa \in MainFilesA }
    ELSE {NoFiles}

\* main is called with the name of a file
InitMain ==
    /\ readable \in BOOLEAN
    /\ text \in IF readable THEN MainTexts ELSE {<<>>}
    /\ files \in MainFileSystemsFor(text)
    /\ exitcode = -1
    /\ ast = <<>>
    /\ stack = <<>>
    /\ interps = <<>>
    /\ heap = <<>>
    /\ out = <<>>
    /\ io = [m \in ModuleNames |-> [resolved |-> 0, read |-> 0]]
    /\ status = "start"
    /\ error = <<>>
    /\ ev = Event("start", NoNode)
    /\ pos = 0 /\ line = 1 /\ column = 1
    /\ token = [type |-> "idle"]
    /\ lexerror = <<>>
    /\ start = [pos |-> 0, line |-> 1, column |-> 1]
    /\ eofs = 0
    /\ ExprIdle

NextMain ==
    \/ MainReadError
    \/ MainParseError
    \/ MainInterpret
    \/ MainReturn
    \/ MainRuntimeError
    \/ Next

SpecMain == InitMain /\ [][NextMain]_vars

----------------------------------------------------------------------------
(* The operators, on operand values read from two variables.                *)

OperandValues ==
    { IntVal(i) : i \in -1..3 } \cup { MkFloat(a, 2) : a \in -1..3 }
    \cup { StrVal(<<>>), StrVal(<<"a">>), StrVal(<<"a", "b">>) }

BinOps == {"+", "-", "*", "/"}
CmpOps == {"==", "!=", "<", "<=", ">", ">="}

OperandEnv == <<[name |-> "l", val |-> operands.left],
                [name |-> "r", val |-> operands.right]>>

InitExpr ==
    /\ operands \in [op : BinOps \cup CmpOps, left : OperandValues, right : OperandValues]
    /\ result = [done |-> FALSE]
    /\ InterpIdle
    /\ LexIdle
    /\ readable = TRUE /\ exitcode = -1

\* visit(BinOp(Variable(l), op, Variable(r)))
VisitBinOp ==
    /\ ~result.done
    /\ operands.op \in BinOps
    /\ result' = [done |-> TRUE,
                  r |-> Eval(BinOp(V("l"), operands.op, V("r")), OperandEnv)]
    /\ UNCHANGED <<operands, interpvars, lexvars, mainvars>>

\* visit(Comparison(Variable(l), op, Variable(r)))
VisitComparison ==
    /\ ~result.done
    /\ operands.op \in CmpOps
    /\ result' = [done |-> TRUE,
                  r |-> Eval(Comparison(V("l"), operands.op, V("r")), OperandEnv)]
    /\ UNCHANGED <<operands, interpvars, lexvars, mainvars>>

NextExpr == VisitBinOp \/ VisitComparison

SpecExpr == InitExpr /\ [][NextExpr]_vars

----------------------------------------------------------------------------
(* Properties.                                                              *)

\* s occurs in t as a contiguous piece
IsInfix(s, t) ==
    \E i \in 0..(Len(t) - Len(s)) : SubSeq(t, i + 1, i + Len(s)) = s

IsSuffix(s, t) ==
    Len(s) <= Len(t) /\ SubSeq(t, Len(t) - Len(s) + 1, Len(t)) = s

WhileFrames == { i \in 1..Len(stack) : stack[i].k = "While" }
TryFrames == { i \in 1..Len(stack) : stack[i].k = "TryCatch" }

\* the environment of the innermost interpreter after the step
EnvNext == heap'[Last(interps').variables]

\* C1: in every activation of a While whose condition is a comparison (so
\* that every check yields a boolean) the body runs at most 10,000 times:
\* the body run in progress is never the 10,001st, and the activation fails
\* with the iteration-limit error when 10,000 body runs have completed.
C1_BodyRunsAtMostLimit ==
    /\ \A i \in WhileFrames :
          stack[i].node.condition.k = "Comparison" =>
             stack[i].iterations + 1 <= max_iterations
    /\ (ev.op = "WhileLimit" /\ ev.node.condition.k = "Comparison") =>
          ev.iterations = max_iterations

\* C2: during one run the file of a module name is resolved and read at most
\* once.
C2_ModuleReadAtMostOnce ==
    \A m \in ModuleNames : io[m].resolved <= 1 /\ io[m].read <= 1

\* C3: a failure raised while a try-block runs is caught by the innermost
\* TryCatch whose try-block is running: the frames of the try-block are
\* dropped (its remaining statements are skipped), the catch variable is
\* bound to the error's message, a non-empty text that ends with the message
\* first raised, and control is at the first statement of the catch-block.
C3_Step ==
    (ev'.failed /\ TryFrames # {}) =>
        LET h == CHOOSE i \in TryFrames : \A j \in TryFrames : j <= i
            node == stack[h].node
        IN /\ ev'.caught
           /\ status' = "running"
           /\ stack' = Append(SubSeq(stack, 1, h - 1), Block(node.catch_block, "catch"))
           /\ Has(EnvNext, node.error_var)
           /\ Lookup(EnvNext, node.error_var) = StrVal(ev'.delivered)
           /\ ev'.delivered # <<>>
           /\ IsSuffix(ev'.raised, ev'.delivered)

C3_TryFailureCaught == [][C3_Step]_vars

\* a failure in a module imported in a try-block was caught with statements
\* of the try-block left to run
C3_Witness ==
    /\ ev.failed /\ ev.caught
    /\ ev.delivered # ev.raised
    /\ Len(ev.hnode.try_block) = 2
    /\ ev.hnode.try_block[1].k = "Import"
    /\ Top = Block(ev.hnode.catch_block, "catch")
    /\ Lookup(Env, "e") = StrVal(ev.delivered)

\* C4: every token get_next_token returns carries the line and column of the
\* first character of its lexeme.
C4_TokenAtLexemeStart ==
    token.type \notin {"idle", "none"} =>
        token.line = start.line /\ token.column = start.column

\* C5: a statement whose expression is Variable(n): when n is unbound the
\* statement fails, the message raised contains n and the comma-separated
\* list of the bound names, and no binding changes (but for the catch
\* variable a catching TryCatch binds); when n is bound the statement uses
\* the bound value.
C5_Step ==
    (AtStmt("Assign") \/ AtStmt("Print")) /\ CurStmt.expr.k = "Variable" =>
        LET n == CurStmt.expr.name
            env == Env
        IN IF \E i \in 1..Len(env) : env[i].name = n
           THEN /\ ~ev'.failed
                /\ \A i \in 1..Len(env) : env[i].name = n =>
                      IF CurStmt.k = "Assign"
                      THEN Lookup(EnvNext, CurStmt.var) = env[i].val
                      ELSE out' = Append(out, PyStr(env[i].val))
           ELSE /\ ev'.failed
                /\ IsInfix(<<n>>, ev'.raised)
                /\ IsInfix(Join(Keys(env)), ev'.raised)
                /\ out' = out
                /\ IF ev'.caught
                   THEN \A i \in 1..Len(env) :
                           env[i].name # ev'.hnode.error_var =>
                              /\ Has(EnvNext, env[i].name)
                              /\ Lookup(EnvNext, env[i].name) = env[i].val
                   ELSE EnvNext = env

C5_VariableLookup == [][C5_Step]_vars

\* an unbound name was read with two names bound
C5_Witness ==
    /\ ev.failed /\ ~ev.caught
    /\ ev.op = "Print" /\ ev.node.expr = V("y")
    /\ Keys(Env) = <<"x", "e">>
    /\ error = MsgUndefined("y", Env)

\* C6: for numeric operands, a / b fails with the division-by-zero error
\* when b is zero (0 or 0.0), and otherwise yields a float whose value is
\* the quotient, also for two ints that divide exactly.
C6_Division ==
    (result.done /\ operands.op = "/"
       /\ operands.left.t \in {"int", "float"} /\ operands.right.t \in {"int", "float"}) =>
        LET l == operands.left
            r == operands.right
            q == result.r
        IN IF r.n = 0
           THEN ~q.ok /\ q.msg = MsgDivZero
           ELSE /\ q.ok
                /\ q.val.t = "float"
                /\ q.val.n * (l.d * r.n) = q.val.d * (l.n * r.d)

\* the ints 2 and 1 were divided
C6_Witness ==
    /\ result.done
    /\ operands = [op |-> "/", left |-> IntVal(2), right |-> IntVal(1)]
    /\ result.r = Ok(FloatVal(2, 1))

\* C7: every interpreter running module statements uses the importer's
\* mapping: the module starts with the importer's bindings, and the importer
\* continues with the bindings the module left.
C7_Step ==
    /\ \A i \in 1..Len(interps) : interps[i].variables = interps[1].variables
    /\ ev'.op = "ImportRun" => EnvNext = Env
    /\ ev'.op = "ModuleEnd" => EnvNext = Env

C7_SharedEnvironment == [][C7_Step]_vars

\* a module read the importer's x into y and replaced x; the importer sees both
C7_Witness ==
    /\ ev.op = "ModuleEnd"
    /\ Len(interps) = 1
    /\ Has(Env, "x") /\ Lookup(Env, "x") = IntVal(2)
    /\ Has(Env, "y") /\ Lookup(Env, "y") = IntVal(1)

ImportFailures ==
    {"ImportNotFound", "ImportUnreadable", "ImportFrontEndError",
     "ImportHostError", "ImportRecursion"}

\* C8: an Import that cannot complete fails with a message that contains the
\* module name and, when it wraps an underlying error, that error's message.
C8_ImportErrorNamesModule ==
    /\ (ev.failed /\ ev.op \in ImportFailures) =>
          IsInfix(<<ev.node.module_name>>, ev.raised)
    /\ \A i \in 1..Len(ev.imports) :
          /\ IsInfix(<<ev.imports[i].name>>, ev.imports[i].msg)
          /\ IsInfix(ev.imports[i].cause, ev.imports[i].msg)

\* C9: when the try-block completes, visit_TryCatch returns: the catch-block
\* is not entered, and no binding (the catch variable's included) changes.
C9_Step ==
    AtEnd({"try"}) =>
        /\ stack' = SubSeq(stack, 1, Len(stack) - 2)
        /\ heap' = heap
        /\ out' = out
        /\ ~ev'.failed

C9_TryCompletes == [][C9_Step]_vars

\* a try-block of two statements completed and the catch variable is unbound
C9_Witness ==
    /\ ev.op = "TryEnd"
    /\ Len(ev.node.try_block) = 2
    /\ ~Has(Env, ev.node.error_var)
    /\ Top.role = "program"

\* C10: a condition check of a While that yields a non-boolean value fails;
\* the body is not entered.
C10_NonBooleanConditionFails ==
    (ev.op \in {"While", "WhileIterate"} /\ ~ev.failed) =>
        Eval(ev.node.condition, Env).val.t = "bool"

\* the then- and else-blocks on a stack
BranchBlocks(stk) ==
    { i \in 1..Len(stk) : stk[i].k = "block" /\ stk[i].role \in {"then", "else"} }

\* C11: an If whose condition yields a non-boolean value fails with the
\* condition error and enters neither block; with a boolean condition it
\* enters the then-block when true, the else-block (if there is one) when
\* false, and never both.
C11_Step ==
    AtStmt("If") =>
        LET node == CurStmt
            c == Eval(node.condition, Env)
        IN IF ~c.ok
           THEN ev'.failed /\ BranchBlocks(stack') = BranchBlocks(stack)
           ELSE IF c.val.t # "bool"
           THEN /\ ev'.failed
                /\ ev'.raised = MsgCondNotBool(c.val)
                /\ BranchBlocks(stack') = BranchBlocks(stack)
                /\ out' = out
                /\ ~ev'.caught => EnvNext = Env
           ELSE /\ ~ev'.failed
                /\ heap' = heap /\ out' = out
                /\ IF c.val = BoolVal(TRUE)
                   THEN stack' = Append(Stepped, Block(node.true_block, "then"))
                   ELSE IF node.false_block # <<>>
                   THEN stack' = Append(Stepped, Block(node.false_block, "else"))
                   ELSE stack' = Stepped

C11_IfCondition == [][C11_Step]_vars

\* an If with the condition 1 failed: x keeps its value and y is not bound
C11_Witness ==
    /\ ev.op = "If" /\ ev.failed
    /\ ev.node.condition = N(1)
    /\ ev.node.false_block # <<>>
    /\ ev.raised = MsgCondNotBool(IntVal(1))
    /\ status = "error"
    /\ Lookup(Env, "x") = IntVal(1) /\ ~Has(Env, "y")

\* C12: for <, <=, >, >= and two numeric operands, int or float in any
\* combination, Comparison yields the boolean of the numeric ordering; when
\* an operand is not numeric it fails.
C12_NumericOrdering ==
    (result.done /\ operands.op \in {"<", "<=", ">", ">="}) =>
        LET l == operands.left
            r == operands.right
            lt == l.n * r.d < r.n * l.d
            gt == r.n * l.d < l.n * r.d
        IN IF l.t \in {"int", "float"} /\ r.t \in {"int", "float"}
           THEN /\ result.r.ok
                /\ result.r.val = BoolVal(CASE operands.op = "<" -> lt
                                            [] operands.op = "<=" -> ~gt
                                            [] operands.op = ">" -> gt
                                            [] operands.op = ">=" -> ~lt)
           ELSE ~result.r.ok

\* the float v has the value a/b
FloatIs(v, a, b) == v.t = "float" /\ v.n * b = v.d * a

\* C19: for +, when an operand is text the result is the concatenation of
\* the textual forms of both operands; two ints give their int sum; two
\* numbers of which one is a float give the float sum.  The operands are
\* the kinds of value an expression yields: int, float and text.
C19_Plus ==
    (result.done /\ operands.op = "+") =>
        LET l == operands.left
            r == operands.right
            q == result.r
        IN /\ l.t \in {"int", "float", "str"} /\ r.t \in {"int", "float", "str"}
           /\ q.ok
           /\ IF l.t = "str" \/ r.t = "str"
              THEN q.val = StrVal(PyStr(l) \o PyStr(r))
              ELSE IF l.t = "int" /\ r.t = "int"
              THEN q.val = IntVal(l.n + r.n)
              ELSE FloatIs(q.val, l.n * r.d + r.n * l.d, l.d * r.d)

\* the text "a" and the float 0.5 were added
C19_Witness ==
    /\ result.done
    /\ operands = [op |-> "+", left |-> StrVal(<<"a">>), right |-> FloatVal(1, 2)]
    /\ result.r = Ok(StrVal(<<"a", "0", ".", "5">>))

\* the text t is s repeated n times (the empty text for n <= 0)
IsRepeated(t, s, n) ==
    IF n <= 0 THEN t = <<>>
    ELSE /\ Len(t) = n * Len(s)
         /\ \A i \in 1..Len(t) : t[i] = s[((i - 1) % Len(s)) + 1]

\* C20: for *, a text and an int n, in either order, give the text repeated
\* n times (the empty text for n < 0); two numbers give their product; a
\* text with a float or with a text fails with a message that names the two
\* operand kinds.
C20_Multiply ==
    (result.done /\ operands.op = "*") =>
        LET l == operands.left
            r == operands.right
            q == result.r
        IN IF l.t = "str" /\ r.t = "int"
           THEN q.ok /\ q.val.t = "str" /\ IsRepeated(q.val.s, l.s, r.n)
           ELSE IF l.t = "int" /\ r.t = "str"
           THEN q.ok /\ q.val.t = "str" /\ IsRepeated(q.val.s, r.s, l.n)
           ELSE IF l.t = "int" /\ r.t = "int"
           THEN q.ok /\ q.val = IntVal(l.n * r.n)
           ELSE IF l.t \in {"int", "float"} /\ r.t \in {"int", "float"}
           THEN q.ok /\ FloatIs(q.val, l.n * r.n, l.d * r.d)
           ELSE /\ ~q.ok
                /\ \E i, j \in 1..Len(q.msg) :
                      i < j /\ q.msg[i] = l.t /\ q.msg[j] = r.t

\* the int 2 times the text "ab"
C20_Witness ==
    /\ result.done
    /\ operands = [op |-> "*", left |-> IntVal(2), right |-> StrVal(<<"a", "b">>)]
    /\ result.r = Ok(StrVal(<<"a", "b", "a", "b">>))

\* C18: once the cursor is at the end of the text, a call of get_next_token
\* returns an EOF token and leaves pos, line and column as they are.
C18_Step ==
    (token.type # "idle" /\ pos >= Len(text)) =>
        /\ token'.type = "EOF"
        /\ lexerror' = lexerror
        /\ pos' = pos /\ line' = line /\ column' = column

C18_EofForever == [][C18_Step]_vars

\* EOF was returned three times at the end of a text of two lines
C18_Witness ==
    /\ token.type = "EOF" /\ eofs = 3
    /\ text # <<>> /\ pos = Len(text) /\ line = 2

\* the operations that visit the statement at the cursor of the innermost block
StatementOps ==
    {"Assign", "Print", "If", "While", "TryCatch", "ImportAgain", "ImportRun"}
    \cup ImportFailures

\* C15: the statement executed is always the one at the cursor of the
\* innermost block, and when it has returned the block continues with the
\* statement after it; the blocks beneath stand still meanwhile.  An Import
\* runs the module's statements from the first one, on top of the importer's
\* block, and returns when the last one is done.  A line is printed exactly
\* by the execution of a Print, at the end of the lines printed before.
C15_Step ==
    /\ ev'.op \in StatementOps =>
          /\ AtStmt(ev'.node.k)
          /\ ev'.node = CurStmt
          /\ ~ev'.failed =>
                /\ Len(stack') >= Len(stack)
                /\ stack'[Len(stack)] = [Top EXCEPT !.pc = Top.pc + 1]
    /\ \A i \in 1..(Len(stack) - 1) :
          (i <= Len(stack') /\ stack[i].k = "block" /\ stack'[i].k = "block"
             /\ stack'[i].role = stack[i].role) => stack'[i] = stack[i]
    /\ ev'.op = "ImportRun" =>
          /\ Len(stack') = Len(stack) + 2
          /\ Last(stack') = Block(files[ev'.node.module_name].ast, "module")
    /\ ev'.op = "ModuleEnd" =>
          /\ Top.role = "module" /\ Top.pc = Len(Top.stmts) + 1
          /\ stack' = SubSeq(stack, 1, Len(stack) - 2)
    /\ IF ev'.op = "Print" /\ ~ev'.failed
       THEN out' = Append(out, PyStr(Eval(CurStmt.expr, Env).val))
       ELSE out' = out

C15_ProgramOrder == [][C15_Step]_vars

\* print(1); import "a"; print(y);  with a = print(2); y = 3;  printed 1, 2, 3
C15_Witness ==
    /\ status = "done"
    /\ ast = <<PrintStmt(N(1)), Import("a"), PrintStmt(V("y"))>>
    /\ out = << <<"1">>, <<"2">>, <<"3">> >>

----------------------------------------------------------------------------
(* C13: every program with a `!` that no `=` follows, outside strings and  *)
(* comments, is rejected by the parser with a ParserError; the parser makes *)
(* no node of a bare `!`, also not between the two expressions of the       *)
(* condition of an if or a while.                                           *)

\* the lexer yields a token of a `!` alone
BareBang(txt) ==
    \E i \in 1..Len(Tokens(txt, Cursor(0, 1, 1))) :
        /\ Tokens(txt, Cursor(0, 1, 1))[i].type = "COMPARISON"
        /\ Tokens(txt, Cursor(0, 1, 1))[i].value = StrVal(<<"!">>)

C13_BareBangIsParserError ==
    (readable /\ status # "start" /\ BareBang(text))
        => /\ status = "exited"
           /\ exitcode = 1
           /\ ev.op = "ParserError"
           /\ ast = <<>>

----------------------------------------------------------------------------
(* C14: the parser builds expression trees in which * and / bind tighter   *)
(* than + and -, and operators of one level associate to the left: for all *)
(* operands a, b, c the text  a + b * c  evaluates as a + (b * c) and      *)
(* a - b - c  as (a - b) - c; 2 + 3 * 4 yields 14.                          *)

\* the number a digit of the text stands for
Literal(ch) == Number(IntVal(DigitValue(ch)))

\* the tree of  a o1 b o2 c  by the rule of the claim
Grouping(a, o1, b, o2, c) ==
    IF o1 \in {"+", "-"} /\ o2 \in {"*", "/"}
    THEN BinOp(Literal(a), o1, BinOp(Literal(b), o2, Literal(c)))
    ELSE BinOp(BinOp(Literal(a), o1, Literal(b)), o2, Literal(c))

\* the value of  a o1 b o2 c  by the rule of the claim
GroupingValue(a, o1, b, o2, c) ==
    IF o1 \in {"+", "-"} /\ o2 \in {"*", "/"}
    THEN ApplyBinOp(o1, IntVal(DigitValue(a)),
                    ApplyBinOp(o2, IntVal(DigitValue(b)), IntVal(DigitValue(c))).val)
    ELSE ApplyBinOp(o2, ApplyBinOp(o1, IntVal(DigitValue(a)), IntVal(DigitValue(b))).val,
                    IntVal(DigitValue(c)))

C14_Precedence ==
    (text \in ExprTexts /\ status # "start")
        => /\ ast = <<PrintStmt(Grouping(text[4], text[5], text[6], text[7], text[8]))>>
           /\ status = "exited"
                => /\ exitcode = 0
                   /\ out = <<PyStr(GroupingValue(text[4], text[5], text[6],
                                                  text[7], text[8]).val)>>

\* 打印(2+3*4); has printed 14
C14_Witness ==
    /\ text = PrintText(<<"2", "+", "3", "*", "4">>)
    /\ status = "exited"
    /\ ast = <<PrintStmt(BinOp(N(2), "+", BinOp(N(3), "*", N(4))))>>
    /\ out = << <<"1", "4">> >>

----------------------------------------------------------------------------
(* C16: main returns 0 exactly when the program was read, lexed, parsed    *)
(* and interpreted and no error escaped to the top level; it returns 1     *)
(* when the file cannot be read or a lex, parse or runtime error escapes.  *)
(* An error a TryCatch caught does not make the exit code 1.               *)

C16_ExitCode ==
    /\ status # "exited" => exitcode = -1
    /\ status = "exited"
         => /\ exitcode \in {0, 1}
            /\ exitcode = 0 <=> (readable /\ parse(text).ok /\ error = <<>>)
            /\ exitcode = 0 <=> ev.op = "MainReturn"

\* the loop limit was caught, the program went on, and main returned 0
C16_Witness ==
    /\ text = TryText(WhileText(OneIsOne, <<>>), "e", PrintText(<<"e">>))
                  \o PrintText(<<"1">>)
    /\ status = "exited"
    /\ exitcode = 0
    /\ out = <<MsgLoopLimit, <<"1">> >>

----------------------------------------------------------------------------
(* C17: if the text of the program has a lexical or syntax error anywhere, *)
(* the error surfaces before any statement runs: nothing is printed and no *)
(* binding is made, also not by well-formed statements that stand before   *)
(* the error; the same holds for the statements of a module whose text has *)
(* such an error.                                                           *)

\* the files of the module texts that do not parse
BadModuleFiles == { FromText("cwd", t) : t \in { u \in ModuleTexts : ~parse(u).ok } }

\* the line main prints for the error of the text
FrontEndErrorLine(txt) ==
    IF parse(txt).kind \in {"LexerError", "ParserError"}
    THEN MsgError(parse(txt).msg) ELSE MsgUnexpected(parse(txt).msg)

C17_ErrorBeforeExecution ==
    /\ (readable /\ ~parse(text).ok)
         => /\ status \in {"start", "exited"}
            /\ ast = <<>> /\ stack = <<>> /\ interps = <<>> /\ heap = <<>>
            /\ out = IF status = "start" THEN <<>> ELSE <<FrontEndErrorLine(text)>>
    /\ (files["a"] \in BadModuleFiles)
         => /\ Len(interps) <= 1 /\ Len(heap) <= 1
            /\ \A i \in 1..Len(stack) :
                  ~(stack[i].k = "block" /\ stack[i].role = "module")
            /\ \A i \in 1..Len(out) : out[i] # <<"2">>
            /\ \A i \in 1..Len(heap) : ~Has(heap[i], "y")

\* 打印(1); ? has ended with the LexerError and has not printed 1
C17_Witness ==
    /\ text = PrintText(<<"1">>) \o <<"?">>
    /\ status = "exited"
    /\ exitcode = 1
    /\ ev.op = "LexerError"
    /\ Len(out) = 1
    /\ heap = <<>>

----------------------------------------------------------------------------
(* C21: the iteration counter of a While belongs to one activation and     *)
(* starts at 0 in each.  A loop inside another loop, or after a sibling    *)
(* loop, fails with the iteration-limit error only on account of the body  *)
(* runs of its own activation, however many other activations performed.   *)

C21_Step ==
    /\ ev'.op = "While"
         => /\ ev'.iterations = 0
            /\ ev'.taken => stack'[Len(stack') - 1] = WhileFrame(ev'.node, 0)
    /\ ev'.op = "WhileLimit"
         => /\ AtEnd({"body"})
            /\ stack[Len(stack) - 1].node = ev'.node
            /\ stack[Len(stack) - 1].iterations = max_iterations
    /\ \A i \in WhileFrames :
          i <= Len(stack')
            => \/ stack'[i] = stack[i]
               \/ /\ i = Len(stack) - 1
                  /\ AtEnd({"body"})
                  /\ stack'[i] = WhileFrame(stack[i].node, stack[i].iterations + 1)

C21_CounterPerActivation == [][C21_Step]_vars

\* the inner loop ran 6000 times in each of two activations, and the
\* program ended without the iteration-limit error
C21_Witness ==
    /\ ast = NestedLoops
    /\ status = "done"
    /\ out = << <<"2">> >>
    /\ Lookup(heap[1], "x") = IntVal(LongLoop)
    /\ 2 * LongLoop > max_iterations

----------------------------------------------------------------------------
(* C22: a failure raised by a statement of a catch-block is not caught by  *)
(* the TryCatch of that catch-block.  It propagates to the enclosing       *)
(* construct: the try-block of an enclosing TryCatch catches it, otherwise *)
(* it is fatal; the catch variable of the inner TryCatch remains bound.    *)

CatchBlockFrames ==
    { i \in 1..Len(stack) : stack[i].k = "block" /\ stack[i].role = "catch" }

\* the TryCatch statement whose catch-block is the frame j: the statement
\* the nearest block below j has just stepped over
CatchOwner(j) ==
    LET b == CHOOSE i \in 1..(j - 1) :
                /\ stack[i].k = "block"
                /\ \A m \in (i + 1)..(j - 1) : stack[m].k # "block"
    IN stack[b].stmts[stack[b].pc - 1]

C22_Step ==
    (ev'.failed /\ CatchBlockFrames # {})
      => LET j == CHOOSE i \in CatchBlockFrames : \A m \in CatchBlockFrames : m <= i
             outer == { i \in TryFrames : i < j }
         IN (\A i \in TryFrames : i < j)
              => /\ CatchOwner(j).k = "TryCatch"
                 /\ ev'.hnode # CatchOwner(j)
                 /\ IF outer = {}
                    THEN /\ ~ev'.caught
                         /\ status' = "error"
                         /\ error' = ev'.delivered
                         /\ stack' = <<>>
                    ELSE LET h == CHOOSE i \in outer : \A m \in outer : m <= i
                         IN /\ ev'.caught
                            /\ status' = "running"
                            /\ ev'.hnode = stack[h].node
                            /\ stack' = Append(SubSeq(stack, 1, h - 1),
                                               Block(stack[h].node.catch_block, "catch"))
                 /\ Has(Env, CatchOwner(j).error_var)
                 /\ Has(EnvNext, CatchOwner(j).error_var)
                 /\ (~ev'.caught \/ ev'.hnode.error_var # CatchOwner(j).error_var)
                      => Lookup(EnvNext, CatchOwner(j).error_var)
                           = Lookup(Env, CatchOwner(j).error_var)

C22_CatchBlockFailurePropagates == [][C22_Step]_vars

\* the catch-block of the inner TryCatch failed on z, the outer TryCatch
\* caught that, and e is still bound to the division error
C22_Witness ==
    /\ ast = <<TryCatch(<<InnerTry(<<Assign("y", V("z"))>>)>>,
                        <<PrintStmt(V("f")), PrintStmt(V("e"))>>, "f"),
               PrintStmt(V("e"))>>
    /\ ev.failed /\ ev.caught
    /\ ev.node = Assign("y", V("z"))
    /\ ev.hnode = ast[1]
    /\ Lookup(Env, "e") = StrVal(MsgDivZero)
    /\ Has(Env, "f")

----------------------------------------------------------------------------
(* C23: an Import of a name that is already in the imported-module set of  *)
(* the interpreter does nothing: no module resolution, no file read, no    *)
(* change of the environment or of the imported-module set, and no error.  *)

C23_Step ==
    (AtStmt("Import") /\ CurStmt.module_name \in CurInterp.imported_modules)
      => /\ io' = io
         /\ heap' = heap
         /\ interps' = interps
         /\ out' = out
         /\ ~ev'.failed
         /\ status' = "running" /\ error' = error
         /\ stack' = Stepped

C23_ImportAgainIsNoOp == [][C23_Step]_vars

\* module a was imported and bound y; the second Import of a was skipped
C23_Witness ==
    /\ ev.op = "ImportAgain"
    /\ ev.node = Import("a")
    /\ "a" \in CurInterp.imported_modules
    /\ io["a"] = [resolved |-> 1, read |-> 1]
    /\ Has(Env, "y")

----------------------------------------------------------------------------
(* C24: in every state reached by running a program the parser accepted,   *)
(* every value bound in the environment is an integer, a fraction or a     *)
(* text, never a boolean: booleans come only from Comparison, which the    *)
(* grammar admits only as the condition of if and while.                   *)

RECURSIVE HasComparison(_)
HasComparison(e) ==
    \/ e.k = "Comparison"
    \/ e.k = "BinOp" /\ (HasComparison(e.left) \/ HasComparison(e.right))

\* a condition is an expression, or a Comparison of two expressions
ConditionOk(c) ==
    IF c.k = "Comparison"
    THEN ~HasComparison(c.left) /\ ~HasComparison(c.right)
    ELSE ~HasComparison(c)

RECURSIVE ComparisonOnlyInConditions(_)
ComparisonOnlyInConditions(blk) ==
    \A i \in 1..Len(blk) :
        CASE blk[i].k \in {"Print", "Assign"} -> ~HasComparison(blk[i].expr)
          [] blk[i].k = "If" ->
                /\ ConditionOk(blk[i].condition)
                /\ ComparisonOnlyInConditions(blk[i].true_block)
                /\ ComparisonOnlyInConditions(blk[i].false_block)
          [] blk[i].k = "While" ->
                /\ ConditionOk(blk[i].condition)
                /\ ComparisonOnlyInConditions(blk[i].block)
          [] blk[i].k = "TryCatch" ->
                /\ ComparisonOnlyInConditions(blk[i].try_block)
                /\ ComparisonOnlyInConditions(blk[i].catch_block)
          [] OTHER -> TRUE

C24_NoBooleanBound ==
    /\ \A i \in 1..Len(heap) : \A k \in 1..Len(heap[i]) :
          heap[i][k].val.t \in {"int", "float", "str"}
    /\ ComparisonOnlyInConditions(ast)
    /\ \A m \in ModuleNames : ComparisonOnlyInConditions(files[m].ast)

\* x = 1; if (x < 2) { print(2); } else { x = 2; } has run: the condition
\* was a boolean, and x is bound to the integer 1
C24_Witness ==
    /\ text = AssignText("x", <<"1">>)
                \o IfText(<<"x", "<", "2">>, PrintText(<<"2">>))
                \o ElseText(AssignText("x", <<"2">>))
    /\ status = "exited" /\ exitcode = 0
    /\ out = << <<"2">> >>
    /\ heap = << <<[name |-> "x", val |-> IntVal(1)]>> >>

----------------------------------------------------------------------------
(* C25: the imported-module set never loses a name, and a name is added    *)
(* before resolution: if an Import of m fails (for example in a try-block) *)
(* m stays in the set, so every later Import of m by the same interpreter  *)
(* is a silent no-op that raises no error and adds no binding.             *)

C25_Step ==
    /\ \A i \in 1..Len(interps) :
          i <= Len(interps')
            => interps[i].imported_modules \subseteq interps'[i].imported_modules
    /\ (AtStmt("Import") /\ Len(interps') >= Len(interps))
          => CurStmt.module_name \in interps'[Len(interps)].imported_modules
    /\ (AtStmt("Import") /\ CurStmt.module_name \in CurInterp.imported_modules)
          => /\ ~ev'.failed
             /\ heap' = heap
             /\ ev'.op = "ImportAgain"

C25_ImportedSetGrows == [][C25_Step]_vars

\* the Import of a failed in the try-block (no file a), and the Import of a
\* after the TryCatch was skipped: no second resolution, no error, no y
C25_Witness ==
    /\ ast = <<TryCatch(<<Import("a")>>, <<PrintStmt(V("e"))>>, "e"),
               Import("a"), PrintStmt(V("y"))>>
    /\ files["a"] = NoFile
    /\ ev.op = "ImportAgain" /\ ~ev.failed
    /\ status = "running"
    /\ out = <<MsgNotFound("a")>>
    /\ io["a"].resolved = 1
    /\ ~Has(Env, "y")

----------------------------------------------------------------------------
(* C26: a failure in a try-block rolls nothing back.  Every binding made   *)
(* and every line printed by the statements of the try-block that ran      *)
(* before the failing one is in effect when the catch-block starts, and    *)
(* the environment the catch-block sees differs from the environment at    *)
(* the moment of the failure only by the binding of the catch variable.    *)

C26_Step ==
    (ev'.failed /\ ev'.caught)
      => /\ out' = out
         /\ EnvNext = Bind(Env, ev'.hnode.error_var, StrVal(ev'.delivered))
         /\ \A k \in 1..Len(Env) :
               Env[k].name # ev'.hnode.error_var => EnvNext[k] = Env[k]
         /\ Top' = Block(ev'.hnode.catch_block, "catch")

C26_NoRollback == [][C26_Step]_vars

\* x = 1; try { x = x + 1; print(x); x = 1 / 0; } ...: the division failed,
\* and the catch-block starts with x = 2 and the line 2 printed
C26_Witness ==
    /\ ev.failed /\ ev.caught
    /\ ev.node = Assign("x", BinOp(N(1), "/", N(0)))
    /\ ev.hnode.try_block = <<Assign("x", XPlus1), PrintStmt(V("x")), ev.node>>
    /\ Top = Block(ev.hnode.catch_block, "catch")
    /\ out = << <<"2">> >>
    /\ Env = <<[name |-> "x", val |-> IntVal(2)],
               [name |-> "e", val |-> StrVal(MsgDivZero)]>>

----------------------------------------------------------------------------
(* C27: every program that contains no Import statement terminates,        *)
(* normally or with an error: every While activation ends after a bounded  *)
(* number of body iterations, and nothing else repeats at run time.        *)

RECURSIVE ContainsImport(_)
ContainsImport(blk) ==
    \E i \in 1..Len(blk) :
        CASE blk[i].k = "Import" -> TRUE
          [] blk[i].k = "If" ->
                ContainsImport(blk[i].true_block) \/ ContainsImport(blk[i].false_block)
          [] blk[i].k = "While" -> ContainsImport(blk[i].block)
          [] blk[i].k = "TryCatch" ->
                ContainsImport(blk[i].try_block) \/ ContainsImport(blk[i].catch_block)
          [] OTHER -> FALSE

C27_Terminates ==
    /\ [](~ContainsImport(ast)
            => \A i \in WhileFrames : stack[i].iterations <= max_iterations)
    /\ (status = "running" /\ ~ContainsImport(ast)) ~> (status \in {"done", "error"})

\* the endless loop after the loop of 6000 was ended by the iteration limit
C27_Witness ==
    /\ ast = LoopThenEndless
    /\ status = "error"
    /\ error = MsgLoopLimit
    /\ ev.op = "WhileLimit" /\ ev.iterations = max_iterations + 1

----------------------------------------------------------------------------
(* C28: the cursor of the lexer never moves backwards and never exceeds    *)
(* the length of the input; every call of get_next_token made before the   *)
(* end of the input advances the cursor by at least one character or       *)
(* raises a LexerError; so for an input of n characters the lexer returns  *)
(* EOF or fails after at most n + 1 calls.                                  *)

\* the message of a LexerError: Lexer.error puts the position before it
IsLexerError(msg) == msg # <<>> /\ msg[1] = "<unknown>"

C28_Step ==
    /\ pos' >= pos
    /\ pos' <= Len(text)
    /\ pos < Len(text) => (pos' > pos \/ IsLexerError(lexerror'))

C28_CursorAdvances ==
    /\ [][C28_Step]_vars
    /\ [](/\ pos <= Len(text)
          /\ Calls(text, Cursor(0, 1, 1), Len(text) + 1).last)

\* three one-character tokens and EOF: four calls on three characters
C28_Witness ==
    /\ text = <<";", "=", "!">>
    /\ token.type = "EOF"
    /\ pos = 3
    /\ eofs = 1
    /\ Len(Tokens(text, Cursor(0, 1, 1))) = Len(text) + 1

============================================================================
